---- MODULE Spec2Model ----
(***************************************************************************)
(* Model of structure/interactionMatrix.py: the genome bin index           *)
(* (genomeBin.createBins / findBinIndex), the parallel construction of the *)
(* interaction matrix (genomeBin.matrixProcess / generateMatrix) and the   *)
(* per-region low-bin filter and ICE coordination                          *)
(* (normaliseCountMatrices).                                               *)
(***************************************************************************)
EXTENDS Integers, Sequences, FiniteSets, TLC

VARIABLES
    binData,      \* genomeBin.binData: (chrFile contents, maxWidth, fixedWidth)
    binPc,        \* "new" before createBins has run, "built" after, "queried" after a lookup
    binDict,      \* genomeBin.binDict: chromosome -> start, end, index arrays and count
    binNames,     \* genomeBin.binNames
    binCount,     \* genomeBin.binCount
    qChrom,       \* chrom argument of the last findBinIndex call
    qPos,         \* position argument of the last findBinIndex call
    qResult,      \* value returned by the last findBinIndex call
    fh,           \* generateMatrix: the lines of fragendFile
    linePos,      \* generateMatrix: number of lines already put on fragQueue
    threads,      \* generateMatrix: the threads argument
    processData,  \* generateMatrix: number of started (process, pipe) pairs
    fragQueue,    \* generateMatrix: the shared multiprocessing.Queue
    wPc,          \* matrixProcess: position of each worker
    wMatrix,      \* matrixProcess: each worker's private matrix
    wLog,         \* matrixProcess: each worker's private logData
    pipe,         \* what each worker has sent down its pipe
    gmPc,         \* generateMatrix: position of the coordinator
    termCount,    \* generateMatrix: number of None values already put
    mergeCount,   \* generateMatrix: number of results already merged
    finalMatrix,  \* generateMatrix: finalMatrix
    finalLog,     \* generateMatrix: finalLog
    matrixList,   \* normaliseCountMatrices.matrixList: paths (directory, sample name)
    files,        \* contents of the count matrix files of matrixList
    regionIndices, \* normaliseCountMatrices.regionIndices: region -> sorted bin indices
    regionOrder,  \* iteration order of the regionIndices dictionary
    call,         \* the method called on the object
    minCount,     \* minCount argument
    rmDiag,       \* rmDiag argument
    nThreads,     \* threads argument
    elPc,         \* extractLowBins: position of the coordinator
    elPut,        \* extractLowBins: number of matrices put on inQueue
    inQueue,      \* extractLowBins: inQueue
    outQueue,     \* extractLowBins: outQueue
    csPc,         \* __colSumsMatrix: position of each worker
    colSumList,   \* extractLowBins: colSumList
    lowBinsDict,  \* extractLowBins: the dictionary returned
    ssPc,         \* saveSubMatrices: position of the coordinator
    ssPut,        \* saveSubMatrices: number of matrices put on inQueue
    lowBins,      \* saveSubMatrices: lowBins handed to the workers
    sInQueue,     \* saveSubMatrices: inQueue
    sOutQueue,    \* saveSubMatrices: outQueue
    svPc,         \* __saveSubMatrixProcess: position of each worker
    subMatrixList, \* saveSubMatrices: subMatrixList
    written,      \* sub-matrix files on disk: path -> contents
    icePc,        \* iceNormalisation: position of the coordinator
    icePut,       \* iceNormalisation: number of sub-matrices put on inQueue
    iceQueue,     \* iceNormalisation: inQueue
    iwPc,         \* __iceNormalisationProcess: position of each worker
    iceOut,       \* sub-matrices whose bias and normMatrix files are written
    regionFile,   \* normaliseCountMatrices: lines of the region file
    regPc,        \* __extractRegionIndices: position
    svJob,        \* __saveSubMatrixProcess: file each worker is writing
    iwJob,        \* __iceNormalisationProcess: files each worker is writing
    iceCounts,    \* __iceNormalisationProcess: the sub-matrix loaded
    iceMatrix,    \* __iceNormalisationProcess: inMatrix
    bias,         \* __iceNormalisationProcess: bias
    iceIter,      \* __iceNormalisationProcess: iterations of the loop done
    numPc,        \* __iceNormalisationProcess: position within one sub-matrix
    normMatrix,   \* __iceNormalisationProcess: the normalised matrix saved
    pairStream,   \* extractPairs: the read pairs it finds, in order
    xpPos,        \* extractPairs: number of pairs sent so far
    xpPc,         \* extractPairs: position
    xpResult,     \* extractPairs: the pairCount it received
    pairPipe,     \* the pipe, from extractPairs to processPairs
    backPipe,     \* the pipe, from processPairs to extractPairs
    pairCount,    \* processPairs: pairCount
    pairSet,      \* processPairs: pairSet
    outObject,    \* processPairs: lines added to the output, and whether closed
    ppPc,         \* processPairs: position
    rmDup,        \* processPairs: argument
    rmConcord,    \* processPairs: argument
    maxSize       \* processPairs: argument

binVars == <<binData, binPc, binDict, binNames, binCount, qChrom, qPos, qResult>>
gmVars == <<fh, linePos, threads, processData, fragQueue, wPc, wMatrix, wLog,
            pipe, gmPc, termCount, mergeCount, finalMatrix, finalLog>>
normVars == <<matrixList, files, regionIndices, regionOrder, call, minCount, rmDiag,
              nThreads, elPc, elPut, inQueue, outQueue, csPc, colSumList, lowBinsDict,
              ssPc, ssPut, lowBins, sInQueue, sOutQueue, svPc, subMatrixList, written,
              icePc, icePut, iceQueue, iwPc, iceOut>>
regVars == <<regionFile, regPc>>
wrVars == <<svJob, iwJob>>
numVars == <<iceCounts, iceMatrix, bias, iceIter, numPc, normMatrix>>
extVars == <<regVars, wrVars, numVars>>
pairVars == <<pairStream, xpPos, xpPc, xpResult, pairPipe, backPipe, pairCount,
              pairSet, outObject, ppPc, rmDup, rmConcord, maxSize>>
vars == <<binVars, gmVars, normVars, extVars, pairVars>>

(***************************************************************************)
(* Bounds and program constants                                            *)
(***************************************************************************)
MaxChrLen == 10
MaxWidth == 5
MaxRecords == 2
MaxThreads == 3
MaxProc == 2
MaxCount == 1
MaxMinCount == 2

ChrNames == {"chr1", "chr2"}
QueryChrs == ChrNames \cup {"chrX"}

(***************************************************************************)
(* Arithmetic helpers.  The arrays of the program are np.uint32 (np.uint64 *)
(* for the column sums); every value the model reaches is far below 2^32,  *)
(* which is beyond the integers of the model checker, so no operator wraps.*)
(***************************************************************************)
\* floor(a / b) for b > 0 and a of either sign
PosFloorDiv(a, b) == IF a >= 0 THEN a \div b ELSE -(((-a) + b - 1) \div b)

\* np.floor(a / b) for b # 0
FloorDiv(a, b) == IF b > 0 THEN PosFloorDiv(a, b) ELSE PosFloorDiv(-a, -b)

\* np.ceil(a / b) for b # 0
CeilDiv(a, b) == -FloorDiv(-a, b)

\* a % b of Python for b # 0: the result has the sign of b
PyMod(a, b) == a - (b * FloorDiv(a, b))

\* len(np.arange(start, stop, step)) for step # 0
ArangeLen(start, stop, step) ==
    LET n == CeilDiv(stop - start, step) IN IF n > 0 THEN n ELSE 0

RECURSIVE SumSeq(_)
SumSeq(s) == IF s = <<>> THEN 0 ELSE Head(s) + SumSeq(Tail(s))

\* np.cumsum(binWidth)
CumSum(s) == [i \in 1..Len(s) |-> SumSeq(SubSeq(s, 1, i))]

Repeat(x, n) == [i \in 1..n |-> x]

(***************************************************************************)
(* genomeBin.createBins                                                    *)
(***************************************************************************)
\* fixedWidth branch: bin ends of one chromosome
FixedBinEndMut(chrLength, maxWidth) ==
    LET start == PyMod(chrLength, maxWidth)
        end == start + maxWidth
        n == ArangeLen(end, chrLength + 1, maxWidth)
    IN  [i \in 1..n |-> end + (i - 1) * maxWidth]

FixedBinEnd(chrLength, maxWidth) ==
    LET remainder == PyMod(chrLength, maxWidth)
        start == FloorDiv(remainder, 2)
        end == start + maxWidth
        \* np.arange(end, chrLength + 1, maxWidth)
        n == ArangeLen(end, chrLength + 1, maxWidth)
    IN  [i \in 1..n |-> end + (i - 1) * maxWidth]

FixedBinStart(chrLength, maxWidth) ==
    LET binEnd == FixedBinEnd(chrLength, maxWidth)
    IN  [i \in 1..Len(binEnd) |-> (binEnd[i] - maxWidth) + 1]

\* variable-width branch: bin widths of one chromosome ([x] * n is the empty
\* list for n <= 0)
VarBinWidthSmallFirst(chrLength, maxWidth) ==
    LET binNo == CeilDiv(chrLength, maxWidth)
        excess == (binNo * maxWidth) - chrLength
        largeBin == maxWidth - FloorDiv(excess, binNo)
        smallBin == maxWidth - CeilDiv(excess, binNo)
        smallBinNo == PyMod(excess, binNo)
        largeBinNo == binNo - smallBinNo
    IN  Repeat(smallBin, smallBinNo) \o Repeat(largeBin, largeBinNo)

VarBinWidthMut(chrLength, maxWidth) ==
    LET binNo == CeilDiv(chrLength, maxWidth)
        excess == (binNo * maxWidth) - chrLength
        largeBin == maxWidth - FloorDiv(excess, binNo)
        smallBin == maxWidth - CeilDiv(excess, binNo)
        smallBinNo == FloorDiv(excess, binNo)
        largeBinNo == binNo - smallBinNo
    IN  Repeat(largeBin, largeBinNo) \o Repeat(smallBin, smallBinNo)

VarBinWidth(chrLength, maxWidth) ==
    LET binNo == CeilDiv(chrLength, maxWidth)
        excess == (binNo * maxWidth) - chrLength
        largeBin == maxWidth - FloorDiv(excess, binNo)
        smallBin == maxWidth - CeilDiv(excess, binNo)
        smallBinNo == PyMod(excess, binNo)
        largeBinNo == binNo - smallBinNo
    IN  Repeat(largeBin, largeBinNo) \o Repeat(smallBin, smallBinNo)

VarBinEnd(chrLength, maxWidth) == CumSum(VarBinWidth(chrLength, maxWidth))

VarBinStart(chrLength, maxWidth) ==
    LET binWidth == VarBinWidth(chrLength, maxWidth)
        binEnd == VarBinEnd(chrLength, maxWidth)
    IN  [i \in 1..Len(binEnd) |-> (binEnd[i] - binWidth[i]) + 1]

BinEnd(chrLength, maxWidth, fixedWidth) ==
    IF fixedWidth THEN FixedBinEnd(chrLength, maxWidth)
    ELSE VarBinEnd(chrLength, maxWidth)

BinStart(chrLength, maxWidth, fixedWidth) ==
    IF fixedWidth THEN FixedBinStart(chrLength, maxWidth)
    ELSE VarBinStart(chrLength, maxWidth)

\* the loop over chrData: entry of binDict for the k-th chromosome, given the
\* number of bins (count) created for the chromosomes before it
RECURSIVE CountBefore(_, _, _, _)
CountBefore(chrData, k, maxWidth, fixedWidth) ==
    IF k <= 1 THEN 0
    ELSE CountBefore(chrData, k - 1, maxWidth, fixedWidth)
         + Len(BinStart(chrData[k - 1][2], maxWidth, fixedWidth))

ChrEntry(chrData, k, maxWidth, fixedWidth) ==
    LET binStart == BinStart(chrData[k][2], maxWidth, fixedWidth)
        binEnd == BinEnd(chrData[k][2], maxWidth, fixedWidth)
        count == CountBefore(chrData, k, maxWidth, fixedWidth)
    IN  [start |-> binStart, end |-> binEnd,
         index |-> [i \in 1..Len(binStart) |-> count + (i - 1)],
         count |-> Len(binStart)]

RECURSIVE ChrBinNames(_, _, _, _)
ChrBinNames(chrData, k, maxWidth, fixedWidth) ==
    IF k = 0 THEN <<>>
    ELSE LET e == ChrEntry(chrData, k, maxWidth, fixedWidth)
         IN  ChrBinNames(chrData, k - 1, maxWidth, fixedWidth)
             \o [i \in 1..e.count |-> <<chrData[k][1], e.start[i], e.end[i]>>]

CreateBinDict(data) ==
    [c \in {data.chrData[k][1] : k \in 1..Len(data.chrData)} |->
        LET k == CHOOSE j \in 1..Len(data.chrData) : data.chrData[j][1] = c
        IN  ChrEntry(data.chrData, k, data.maxWidth, data.fixedWidth)]

CreateBinNames(data) ==
    ChrBinNames(data.chrData, Len(data.chrData), data.maxWidth, data.fixedWidth)

CreateBinCount(data) ==
    CountBefore(data.chrData, Len(data.chrData) + 1, data.maxWidth, data.fixedWidth)

\* createBins checks none of its arguments; it raises only where the
\* arithmetic does: 'int % 0' and 'float / 0' raise ZeroDivisionError, and
\* with binNo = 0 'excess / binNo' is inf or nan, which int() refuses
\* (OverflowError, ValueError)
ChrRaises(chrLength, maxWidth, fixedWidth) ==
    IF maxWidth = 0 THEN TRUE
    ELSE ~fixedWidth /\ CeilDiv(chrLength, maxWidth) = 0

CreateRaises(data) ==
    \E k \in 1..Len(data.chrData) :
        ChrRaises(data.chrData[k][2], data.maxWidth, data.fixedWidth)

(***************************************************************************)
(* genomeBin.readBed.  The bed file is the sequence of its lines, each a   *)
(* tuple <<chromosome, start, end>>.                                       *)
(***************************************************************************)
\* np.unique(binChr) returns the names sorted
SortedChrs == <<"chr1", "chr2">>

\* the elements of a set of integers in ascending order
RECURSIVE Ascending(_)
Ascending(S) ==
    IF S = {} THEN <<>>
    ELSE LET m == CHOOSE x \in S : \A y \in S : x <= y
         IN  <<m>> \o Ascending(S \ {m})

\* "indices = binChr == chrom": the lines of one chromosome, in file order
ChrLines(lines, chrom) == Ascending({i \in 1..Len(lines) : lines[i][1] = chrom})

\* binArray[0::2] = chrStart; binArray[1::2] = chrEnd
Interleave(chrStart, chrEnd) ==
    [i \in 1..(2 * Len(chrStart)) |->
        IF i % 2 = 1 THEN chrStart[(i + 1) \div 2] ELSE chrEnd[i \div 2]]

OverlappingMut(binArray) ==
    \E i \in 1..(Len(binArray) - 1) : binArray[i + 1] < binArray[i]

\* "if binArray[i + 1] <= binArray[i]: raise IOError"
Overlapping(binArray) ==
    \E i \in 1..(Len(binArray) - 1) : binArray[i + 1] <= binArray[i]

BedEntry(lines, chrom) ==
    LET rows == ChrLines(lines, chrom)
    IN  [start |-> [k \in 1..Len(rows) |-> lines[rows[k]][2]],
         end |-> [k \in 1..Len(rows) |-> lines[rows[k]][3]],
         \* binIndex = np.arange(0, len(binStart)) numbers the lines of the file
         index |-> [k \in 1..Len(rows) |-> rows[k] - 1],
         count |-> Len(rows)]

BedChrs(lines) == {lines[i][1] : i \in 1..Len(lines)}

\* np.loadtxt squeezes the columns of a one-line file to 0-d arrays, of which
\* len() raises TypeError; otherwise the overlap check decides
BedRaises(lines) ==
    \/ Len(lines) < 2
    \/ \E chrom \in BedChrs(lines) :
          LET e == BedEntry(lines, chrom) IN Overlapping(Interleave(e.start, e.end))

ReadBedDict(lines) == [chrom \in BedChrs(lines) |-> BedEntry(lines, chrom)]

\* binNames grows chromosome after chromosome, in the order of np.unique
RECURSIVE BedBinNames(_, _)
BedBinNames(lines, k) ==
    IF k = 0 THEN <<>>
    ELSE LET e == BedEntry(lines, SortedChrs[k])
         IN  BedBinNames(lines, k - 1)
             \o [i \in 1..e.count |-> <<SortedChrs[k], e.start[i], e.end[i]>>]

ReadBedNames(lines) == BedBinNames(lines, Len(SortedChrs))

(***************************************************************************)
(* genomeBin.findBinIndex                                                  *)
(***************************************************************************)
NoChr == [kind |-> "nochr", index |-> 0]
NoBin == [kind |-> "nobin", index |-> 0]
Found(i) == [kind |-> "index", index |-> i]

SearchSortedMut(arr, position) ==
    Cardinality({i \in 1..Len(arr) : arr[i] <= position})

\* ndarray.searchsorted(position) on a sorted array: leftmost insertion point
SearchSorted(arr, position) ==
    Cardinality({i \in 1..Len(arr) : arr[i] < position})

FindBinIndexMut(dict, chrom, pos) ==
    LET position == pos
    IN  IF chrom \notin DOMAIN dict THEN NoChr
        ELSE LET binLocation == SearchSorted(dict[chrom].end, position)
             IN  IF binLocation >= Len(dict[chrom].start) THEN NoBin
                 ELSE Found(dict[chrom].index[binLocation + 1])

FindBinIndex(dict, chrom, pos) ==
    LET position == pos
    IN  IF chrom \notin DOMAIN dict THEN NoChr
        ELSE LET binLocation == SearchSorted(dict[chrom].end, position)
             IN  IF binLocation >= Len(dict[chrom].start) THEN NoBin
                 ELSE IF dict[chrom].start[binLocation + 1] <= position
                      THEN Found(dict[chrom].index[binLocation + 1])
                      ELSE NoBin

(***************************************************************************)
(* genomeBin.matrixProcess: the body of the loop for one fragPair          *)
(***************************************************************************)
ZeroMatrix(n) == [i \in 0..(n - 1) |-> [j \in 0..(n - 1) |-> 0]]
ZeroLog == [k \in 0..3 |-> 0]

\* matrix[a][b] += 1
Incr(matrix, a, b) == [matrix EXCEPT ![a][b] = @ + 1]

\* the two increments of an accepted pair
AcceptMatrixMut(matrix, indices) ==
    Incr(matrix, indices[1], indices[2])

AcceptMatrix(matrix, indices) ==
    Incr(Incr(matrix, indices[1], indices[2]), indices[2], indices[1])

\* logData[k] += 1
CountLog(logData, k) == [logData EXCEPT ![k] = @ + 1]

\* the elif chain that counts a rejected pair
RejectLogMut(logData, indices) ==
    IF indices = "nochr" THEN CountLog(CountLog(logData, 1), 2)
    ELSE CountLog(logData, 2)

RejectLog(logData, indices) ==
    IF indices = "nochr" THEN CountLog(logData, 1)
    ELSE CountLog(logData, 2)

\* the inner loop over fragends: the list of two indices, or the first
\* failure reason met
Resolve(dict, fragPair) ==
    LET first == FindBinIndex(dict, fragPair[1], fragPair[2])
        second == FindBinIndex(dict, fragPair[3], fragPair[4])
    IN  IF first.kind # "index" THEN [isList |-> FALSE, reason |-> first.kind, list |-> <<>>]
        ELSE IF second.kind # "index"
             THEN [isList |-> FALSE, reason |-> second.kind, list |-> <<>>]
             ELSE [isList |-> TRUE, reason |-> "", list |-> <<first.index, second.index>>]

MatrixStepMut(dict, matrix, logData, fragPair) ==
    LET counted == CountLog(logData, 0)
        indices == Resolve(dict, fragPair)
    IN  IF indices.isList
        THEN [matrix |-> AcceptMatrix(matrix, indices.list),
              logData |-> CountLog(counted, 3)]
        ELSE [matrix |-> matrix,
              logData |-> RejectLog(logData, indices.reason)]

MatrixStep(dict, matrix, logData, fragPair) ==
    LET counted == CountLog(logData, 0)
        indices == Resolve(dict, fragPair)
    IN  IF indices.isList
        THEN [matrix |-> AcceptMatrix(matrix, indices.list),
              logData |-> CountLog(counted, 3)]
        ELSE [matrix |-> matrix,
              logData |-> RejectLog(counted, indices.reason)]

(***************************************************************************)
(* genomeBin.generateMatrix: merging the workers' results                  *)
(***************************************************************************)
AddMatrix(a, b) ==
    [i \in DOMAIN a |-> [j \in DOMAIN a[i] |-> a[i][j] + b[i][j]]]

AddLog(a, b) == [k \in DOMAIN a |-> a[k] + b[k]]

\* the "if count:" branch of the merge loop
MergeMatrixMut(count, final, processMatrix) == processMatrix

MergeMatrix(count, final, processMatrix) ==
    IF count # 0 THEN AddMatrix(final, processMatrix) ELSE processMatrix

MergeLog(count, final, processLog) ==
    IF count # 0 THEN AddLog(final, processLog) ELSE processLog

\* "if threads > 2: threads -= 1"
WorkerCount(t) == IF t > 2 THEN t - 1 ELSE t

(***************************************************************************)
(* State machine of the bin index                                          *)
(***************************************************************************)
None == <<"None">>
Workers == 1..MaxThreads

ChrDataSets ==
    {<<<<c, l>>>> : c \in ChrNames, l \in 1..MaxChrLen}
    \cup {d \in {<<<<c1, l1>>, <<c2, l2>>>> :
                    c1 \in ChrNames, c2 \in ChrNames,
                    l1 \in 1..MaxChrLen, l2 \in 1..MaxChrLen} : d[1][1] # d[2][1]}

BinInputs ==
    [chrData : ChrDataSets, maxWidth : 1..MaxWidth, fixedWidth : BOOLEAN]

NormWorkers == 1..MaxProc

NormIdle ==
    /\ matrixList = <<>>
    /\ files = <<>>
    /\ regionIndices = <<>>
    /\ regionOrder = <<>>
    /\ call = ""
    /\ minCount = 0
    /\ rmDiag = FALSE
    /\ nThreads = 1
    /\ elPc = "idle"
    /\ elPut = 0
    /\ inQueue = <<>>
    /\ outQueue = <<>>
    /\ csPc = [w \in NormWorkers |-> "idle"]
    /\ colSumList = <<>>
    /\ lowBinsDict = <<>>
    /\ ssPc = "idle"
    /\ ssPut = 0
    /\ lowBins = <<>>
    /\ sInQueue = <<>>
    /\ sOutQueue = <<>>
    /\ svPc = [w \in NormWorkers |-> "idle"]
    /\ subMatrixList = <<>>
    /\ written = <<>>
    /\ icePc = "idle"
    /\ icePut = 0
    /\ iceQueue = <<>>
    /\ iwPc = [w \in NormWorkers |-> "idle"]
    /\ iceOut = {}

GmIdle ==
    /\ fh = <<>>
    /\ linePos = 0
    /\ threads = 1
    /\ processData = 0
    /\ fragQueue = <<>>
    /\ wPc = [w \in Workers |-> "idle"]
    /\ wMatrix = [w \in Workers |-> ZeroMatrix(0)]
    /\ wLog = [w \in Workers |-> ZeroLog]
    /\ pipe = [w \in Workers |-> "empty"]
    /\ gmPc = "idle"
    /\ termCount = 0
    /\ mergeCount = 0
    /\ finalMatrix = ZeroMatrix(0)
    /\ finalLog = ZeroLog

RegIdle ==
    /\ regionFile = <<>>
    /\ regPc = "idle"

WrIdle ==
    /\ svJob = [w \in NormWorkers |-> <<>>]
    /\ iwJob = [w \in NormWorkers |-> <<>>]

NumIdle ==
    /\ iceCounts = <<>>
    /\ iceMatrix = <<>>
    /\ bias = <<>>
    /\ iceIter = 0
    /\ numPc = "idle"
    /\ normMatrix = <<>>

PairIdle ==
    /\ pairStream = <<>>
    /\ xpPos = 0
    /\ xpPc = "idle"
    /\ xpResult = <<>>
    /\ pairPipe = <<>>
    /\ backPipe = <<>>
    /\ pairCount = <<>>
    /\ pairSet = {}
    /\ outObject = [lines |-> <<>>, closed |-> FALSE]
    /\ ppPc = "idle"
    /\ rmDup = FALSE
    /\ rmConcord = FALSE
    /\ maxSize = 0

ExtIdle == RegIdle /\ WrIdle /\ NumIdle /\ PairIdle

InitBins ==
    /\ binData \in BinInputs
    /\ binPc = "new"
    /\ binDict = <<>>
    /\ binNames = <<>>
    /\ binCount = 0
    /\ qChrom = ""
    /\ qPos = 0
    /\ qResult = NoBin
    /\ GmIdle
    /\ ExtIdle
    /\ NormIdle

\* genomeBin.__init__ with a tuple: createBins
CreateBins ==
    /\ binPc = "new"
    /\ ~CreateRaises(binData)
    /\ binDict' = CreateBinDict(binData)
    /\ binNames' = CreateBinNames(binData)
    /\ binCount' = CreateBinCount(binData)
    /\ binPc' = "built"
    /\ UNCHANGED <<binData, qChrom, qPos, qResult, gmVars, pairVars, normVars, extVars>>

\* genomeBin.__init__ with a tuple: createBins raises, no object is made
CreateBinsRaise ==
    /\ binPc = "new"
    /\ CreateRaises(binData)
    /\ binPc' = "error"
    /\ UNCHANGED <<binData, binDict, binNames, binCount, qChrom, qPos, qResult,
                   gmVars, pairVars, normVars, extVars>>

\* a call of findBinIndex on the built index
FindBin(chrom, position) ==
    /\ binPc \in {"built", "queried"}
    /\ qChrom' = chrom
    /\ qPos' = position
    /\ qResult' = FindBinIndex(binDict, chrom, position)
    /\ binPc' = "queried"
    /\ UNCHANGED <<binData, binDict, binNames, binCount, gmVars, pairVars, normVars, extVars>>

NextBins ==
    \/ CreateBins
    \/ \E chrom \in QueryChrs, position \in 0..(MaxChrLen + 1) : FindBin(chrom, position)

SpecBins == InitBins /\ [][NextBins]_vars

\* genomeBin.__init__ with a string: readBed
MaxBedLines == 2
MaxBedPos == 5
BedLine == {<<c, a, b>> : c \in ChrNames, a \in 1..MaxBedPos, b \in 1..MaxBedPos}
BedFiles(n) == [1..n -> BedLine]

InitBed ==
    /\ \E n \in 1..MaxBedLines : binData \in BedFiles(n)
    /\ binPc = "new"
    /\ binDict = <<>>
    /\ binNames = <<>>
    /\ binCount = 0
    /\ qChrom = ""
    /\ qPos = 0
    /\ qResult = NoBin
    /\ GmIdle
    /\ ExtIdle
    /\ NormIdle

ReadBed ==
    /\ binPc = "new"
    /\ ~BedRaises(binData)
    /\ binDict' = ReadBedDict(binData)
    /\ binNames' = ReadBedNames(binData)
    /\ binCount' = Len(binData)
    /\ binPc' = "built"
    /\ UNCHANGED <<binData, qChrom, qPos, qResult, gmVars, pairVars, normVars, extVars>>

ReadBedRaise ==
    /\ binPc = "new"
    /\ BedRaises(binData)
    /\ binPc' = "error"
    /\ UNCHANGED <<binData, binDict, binNames, binCount, qChrom, qPos, qResult,
                   gmVars, pairVars, normVars, extVars>>

NextBed == ReadBed \/ ReadBedRaise

SpecBed == InitBed /\ [][NextBed]_vars

\* findBinIndex on an index read from a bed file
FindBedBin ==
    \E chrom \in QueryChrs, position \in 0..(MaxBedPos + 1) :
        FindBin(chrom, position)

NextFind == ReadBed \/ ReadBedRaise \/ FindBedBin

SpecFind == InitBed /\ [][NextFind]_vars

\* createBins with widths of either sign
WidthInputs ==
    {[chrData |-> d, maxWidth |-> w, fixedWidth |-> f] :
        d \in ChrDataSets, w \in (0 - MaxWidth)..MaxWidth, f \in BOOLEAN}

InitWidth ==
    /\ binData \in WidthInputs
    /\ binPc = "new"
    /\ binDict = <<>>
    /\ binNames = <<>>
    /\ binCount = 0
    /\ qChrom = ""
    /\ qPos = 0
    /\ qResult = NoBin
    /\ GmIdle
    /\ ExtIdle
    /\ NormIdle

NextWidth == CreateBins \/ CreateBinsRaise

SpecWidth == InitWidth /\ [][NextWidth]_vars

(***************************************************************************)
(* State machine of generateMatrix and its matrixProcess workers           *)
(***************************************************************************)
\* fragment ends (chromosome, start) met in the input lines
FragEnds == {<<"chr1", 3>>, <<"chr1", 8>>, <<"chr2", 1>>, <<"chrX", 1>>}

\* an input line: fragPair[0:2] and fragPair[3:5] of "chrA startA endA chrB startB endB"
FragPairs == {<<a[1], a[2], b[1], b[2]>> : a \in FragEnds, b \in FragEnds}

FragFiles == UNION {[1..n -> FragPairs] : n \in 0..MaxRecords}

MatrixBinInputs ==
    {[chrData |-> <<<<"chr1", 10>>, <<"chr2", 7>>>>, maxWidth |-> 5, fixedWidth |-> f] :
        f \in BOOLEAN}

InitMatrix ==
    /\ binData \in MatrixBinInputs
    /\ binPc = "built"
    /\ binDict = CreateBinDict(binData)
    /\ binNames = CreateBinNames(binData)
    /\ binCount = CreateBinCount(binData)
    /\ qChrom = ""
    /\ qPos = 0
    /\ qResult = NoBin
    /\ fh \in FragFiles
    /\ linePos = 0
    /\ threads \in 1..MaxThreads
    /\ processData = 0
    /\ fragQueue = <<>>
    /\ wPc = [w \in Workers |-> "idle"]
    /\ wMatrix = [w \in Workers |-> ZeroMatrix(0)]
    /\ wLog = [w \in Workers |-> ZeroLog]
    /\ pipe = [w \in Workers |-> "empty"]
    /\ gmPc = "start"
    /\ termCount = 0
    /\ mergeCount = 0
    /\ finalMatrix = ZeroMatrix(0)
    /\ finalLog = ZeroLog
    /\ NormIdle
    /\ ExtIdle

\* generateMatrix: adjust the thread number and start the processes
StartProcesses ==
    /\ gmPc = "start"
    /\ processData' = WorkerCount(threads)
    /\ wPc' = [w \in Workers |-> IF w <= WorkerCount(threads) THEN "run" ELSE "idle"]
    /\ wMatrix' = [w \in Workers |->
                     IF w <= WorkerCount(threads) THEN ZeroMatrix(binCount) ELSE wMatrix[w]]
    /\ gmPc' = "put"
    /\ UNCHANGED <<pairVars, extVars, normVars, binVars, fh, linePos, threads, fragQueue, wLog, pipe,
                   termCount, mergeCount, finalMatrix, finalLog>>

\* generateMatrix: "for line in fh: fragQueue.put(line)"
PutLine ==
    /\ gmPc = "put"
    /\ linePos < Len(fh)
    /\ fragQueue' = Append(fragQueue, fh[linePos + 1])
    /\ linePos' = linePos + 1
    /\ UNCHANGED <<pairVars, extVars, normVars, binVars, fh, threads, processData, wPc, wMatrix, wLog, pipe,
                   gmPc, termCount, mergeCount, finalMatrix, finalLog>>

\* generateMatrix: "for _ in processData: fragQueue.put(None)"
PutNone ==
    /\ gmPc = "put"
    /\ linePos = Len(fh)
    /\ termCount < processData
    /\ fragQueue' = Append(fragQueue, None)
    /\ termCount' = termCount + 1
    /\ gmPc' = IF termCount + 1 = processData THEN "merge" ELSE "put"
    /\ UNCHANGED <<pairVars, extVars, normVars, binVars, fh, linePos, threads, processData, wPc, wMatrix, wLog,
                   pipe, mergeCount, finalMatrix, finalLog>>

\* matrixProcess: one turn of the loop over iter(inputQueue.get, None)
ProcessPair(w) ==
    /\ wPc[w] = "run"
    /\ fragQueue # <<>>
    /\ Head(fragQueue) # None
    /\ LET r == MatrixStep(binDict, wMatrix[w], wLog[w], Head(fragQueue))
       IN  /\ wMatrix' = [wMatrix EXCEPT ![w] = r.matrix]
           /\ wLog' = [wLog EXCEPT ![w] = r.logData]
    /\ fragQueue' = Tail(fragQueue)
    /\ UNCHANGED <<pairVars, extVars, normVars, binVars, fh, linePos, threads, processData, wPc, pipe, gmPc,
                   termCount, mergeCount, finalMatrix, finalLog>>

SendResultMut(w) ==
    /\ wPc[w] = "run"
    /\ fragQueue # <<>>
    /\ Head(fragQueue) = None
    /\ fragQueue' = fragQueue
    /\ pipe' = [pipe EXCEPT ![w] = "sent"]
    /\ wPc' = [wPc EXCEPT ![w] = "sent"]
    /\ UNCHANGED <<pairVars, extVars, normVars, binVars, fh, linePos, threads, processData, wMatrix, wLog, gmPc,
                   termCount, mergeCount, finalMatrix, finalLog>>

\* matrixProcess: None received, "outPipe.send((matrix, logData))"
SendResult(w) ==
    /\ wPc[w] = "run"
    /\ fragQueue # <<>>
    /\ Head(fragQueue) = None
    /\ fragQueue' = Tail(fragQueue)
    /\ pipe' = [pipe EXCEPT ![w] = "sent"]
    /\ wPc' = [wPc EXCEPT ![w] = "sent"]
    /\ UNCHANGED <<pairVars, extVars, normVars, binVars, fh, linePos, threads, processData, wMatrix, wLog, gmPc,
                   termCount, mergeCount, finalMatrix, finalLog>>

\* generateMatrix: one turn of the loop over enumerate(processData)
MergeResult ==
    /\ gmPc = "merge"
    /\ mergeCount < processData
    /\ pipe[mergeCount + 1] = "sent"
    /\ finalMatrix' = MergeMatrix(mergeCount, finalMatrix, wMatrix[mergeCount + 1])
    /\ finalLog' = MergeLog(mergeCount, finalLog, wLog[mergeCount + 1])
    /\ pipe' = [pipe EXCEPT ![mergeCount + 1] = "closed"]
    /\ mergeCount' = mergeCount + 1
    /\ gmPc' = IF mergeCount + 1 = processData THEN "done" ELSE "merge"
    /\ UNCHANGED <<pairVars, extVars, normVars, binVars, fh, linePos, threads, processData, fragQueue, wPc,
                   wMatrix, wLog, termCount>>

NextMatrix ==
    \/ StartProcesses
    \/ PutLine
    \/ PutNone
    \/ \E w \in Workers : ProcessPair(w)
    \/ \E w \in Workers : SendResult(w)
    \/ MergeResult

SpecMatrix == InitMatrix /\ [][NextMatrix]_vars

\* generateMatrix on files of one more record, made of one line per outcome
\* of the loop: accepted, 'nochr', 'nobin' (position past the chromosome),
\* and a second fragend outside the bins of the fixed-width index
TallyPairs == {<<"chr1", 3, "chr1", 8>>, <<"chrX", 1, "chr1", 3>>,
               <<"chr1", 11, "chr1", 3>>, <<"chr1", 3, "chr2", 1>>}

InitTally ==
    /\ binData \in MatrixBinInputs
    /\ binPc = "built"
    /\ binDict = CreateBinDict(binData)
    /\ binNames = CreateBinNames(binData)
    /\ binCount = CreateBinCount(binData)
    /\ qChrom = ""
    /\ qPos = 0
    /\ qResult = NoBin
    /\ \E n \in 0..(MaxRecords + 1) : fh \in [1..n -> TallyPairs]
    /\ linePos = 0
    /\ threads \in 1..MaxThreads
    /\ processData = 0
    /\ fragQueue = <<>>
    /\ wPc = [w \in Workers |-> "idle"]
    /\ wMatrix = [w \in Workers |-> ZeroMatrix(0)]
    /\ wLog = [w \in Workers |-> ZeroLog]
    /\ pipe = [w \in Workers |-> "empty"]
    /\ gmPc = "start"
    /\ termCount = 0
    /\ mergeCount = 0
    /\ finalMatrix = ZeroMatrix(0)
    /\ finalLog = ZeroLog
    /\ NormIdle
    /\ ExtIdle

SpecTally == InitTally /\ [][NextMatrix]_vars

(***************************************************************************)
(* normaliseCountMatrices: column sums and low bins                        *)
(***************************************************************************)
\* the header shared by the count matrix files (normaliseCountMatrices.binNames)
HeaderBinNames == <<<<"chr1", 1, 5>>, <<"chr1", 6, 10>>>>
Bins == 0..(Len(HeaderBinNames) - 1)

\* np.fill_diagonal(inMatrix, 0)
FillDiagonal(m) == [i \in DOMAIN m |-> [j \in DOMAIN m[i] |-> IF i = j THEN 0 ELSE m[i][j]]]

\* np.loadtxt followed by the optional removal of the diagonal
LoadCounts(m, diag) == IF diag THEN FillDiagonal(m) ELSE m

\* "np.all(inMatrix == inMatrix.T)"
IsSymmetric(m) == \A i \in DOMAIN m : \A j \in DOMAIN m : m[i][j] = m[j][i]

\* inMatrix[np.ix_(indices, indices)].sum(axis=1), for the row of bin b
RowSum(inMatrix, indices, b) == SumSeq([k \in 1..Len(indices) |-> inMatrix[b][indices[k]]])

InRegion(indices, b) == \E k \in 1..Len(indices) : indices[k] = b

\* the loop "for indices in self.regionIndices.values()": binSums after the
\* first k regions of the dictionary
RECURSIVE BinSums(_, _, _, _)
BinSums(inMatrix, regions, order, k) ==
    IF k = 0 THEN [b \in DOMAIN inMatrix |-> 0]
    ELSE LET before == BinSums(inMatrix, regions, order, k - 1)
             indices == regions[order[k]]
         IN  [b \in DOMAIN inMatrix |->
                IF InRegion(indices, b) THEN RowSum(inMatrix, indices, b) ELSE before[b]]

\* colSumArray.min(axis=0), for bin b
ColMinMut(sums, b) ==
    CHOOSE x \in {sums[i][b] : i \in 1..Len(sums)} :
        \A i \in 1..Len(sums) : x >= sums[i][b]

ColMin(sums, b) ==
    CHOOSE x \in {sums[i][b] : i \in 1..Len(sums)} :
        \A i \in 1..Len(sums) : x <= sums[i][b]

\* "lowBins = colSumArray.min(axis=0) < minCount" and the dictionary built from it
LowBinsDict(sums, regions, count) ==
    [r \in DOMAIN regions |->
        [k \in 1..Len(regions[r]) |-> ColMin(sums, regions[r][k]) < count]]

\* saveSubMatrices, minCount == 0: np.zeros(len(indices), dtype=bool)
ZeroLowBins(regions) ==
    [r \in DOMAIN regions |-> [k \in 1..Len(regions[r]) |-> FALSE]]

(***************************************************************************)
(* normaliseCountMatrices: sub-matrix files                                *)
(***************************************************************************)
OutDir == "out"

\* re.search('([^/]*).countMatrix.gz$', matrix).group(1)
SampleName(matrix) == matrix[2]

\* counts[indices,:][:,indices] with the low rows and columns set to 0
RegionCounts(counts, indices, rLowBins) ==
    [i \in 1..Len(indices) |->
        [j \in 1..Len(indices) |->
            IF rLowBins[i] \/ rLowBins[j] THEN 0 ELSE counts[indices[i]][indices[j]]]]

\* os.path.join(outDir, '{}.{}.{}.noself.countMatrix.gz'.format(...))
OutPath(matrix, region, count) ==
    <<OutDir, SampleName(matrix), region, count, "noself", "countMatrix.gz">>

\* the fileList of one matrix, in the order of the regionIndices dictionary
FileList(matrix, order, count) ==
    [k \in 1..Len(order) |-> OutPath(matrix, order[k], count)]

\* the files np.savetxt leaves on disk for one matrix
SavedFiles(disk, matrix, counts, regions, order, masks, count) ==
    [p \in DOMAIN disk \cup {OutPath(matrix, r, count) : r \in DOMAIN regions} |->
        IF \E r \in DOMAIN regions : p = OutPath(matrix, r, count)
        THEN LET r == CHOOSE x \in DOMAIN regions : p = OutPath(matrix, x, count)
             IN  RegionCounts(counts, regions[r], masks[r])
        ELSE disk[p]]

\* __iceNormalisationProcess: "m, n = inMatrix.shape" needs a two-dimensional
\* array (np.loadtxt squeezes a 1 x 1 file), then the symmetry check
IceInputOk(sub) == Len(sub) >= 2 /\ IsSymmetric(sub)

(***************************************************************************)
(* State machine of extractLowBins, saveSubMatrices and iceNormalisation   *)
(***************************************************************************)
Stop == <<"None">>

SymMatrices == {m \in [Bins -> [Bins -> 0..MaxCount]] : IsSymmetric(m)}

\* asymmetric files: one contact recorded on one side of the diagonal only
AsymMatrices ==
    {m \in [Bins -> [Bins -> 0..MaxCount]] :
        /\ \A i \in Bins : m[i][i] = 0
        /\ \A i \in Bins : \A j \in Bins : i < j => m[i][j] = 0
        /\ ~IsSymmetric(m)}

CountFiles == SymMatrices \cup AsymMatrices

MatrixLists == {<<<<"d1", "s1">>>>, <<<<"d1", "s1">>, <<"d1", "s2">>>>}

Paths(list) == {list[i] : i \in 1..Len(list)}

\* region dictionaries __extractRegionIndices accepts, with their iteration order
RegionSetups ==
    {[indices |-> ("A" :> <<0, 1>>), order |-> <<"A">>],
     [indices |-> ("A" :> <<0, 1>>) @@ ("B" :> <<1>>), order |-> <<"A", "B">>],
     [indices |-> ("A" :> <<0, 1>>) @@ ("B" :> <<1>>), order |-> <<"B", "A">>],
     [indices |-> ("A" :> <<0>>) @@ ("B" :> <<1>>), order |-> <<"A", "B">>],
     [indices |-> ("A" :> <<0>>) @@ ("B" :> <<1>>), order |-> <<"B", "A">>]}

BinIdle ==
    /\ binData = [chrData |-> <<>>, maxWidth |-> 1, fixedWidth |-> FALSE]
    /\ binPc = "idle"
    /\ binDict = <<>>
    /\ binNames = <<>>
    /\ binCount = 0
    /\ qChrom = ""
    /\ qPos = 0
    /\ qResult = NoBin

NormObject(lists, contents, setups, calls, minCounts) ==
    /\ matrixList \in lists
    /\ files \in [Paths(matrixList) -> contents]
    /\ \E setup \in setups :
          /\ regionIndices = setup.indices
          /\ regionOrder = setup.order
    /\ call \in calls
    /\ minCount \in minCounts
    /\ rmDiag \in BOOLEAN
    /\ nThreads \in 1..MaxProc
    /\ elPc = IF call = "extractLowBins" THEN "start" ELSE "idle"
    /\ elPut = 0
    /\ inQueue = <<>>
    /\ outQueue = <<>>
    /\ csPc = [w \in NormWorkers |-> "idle"]
    /\ colSumList = <<>>
    /\ lowBinsDict = <<>>
    /\ ssPc = IF call = "saveSubMatrices" THEN "start" ELSE "idle"
    /\ ssPut = 0
    /\ lowBins = <<>>
    /\ sInQueue = <<>>
    /\ sOutQueue = <<>>
    /\ svPc = [w \in NormWorkers |-> "idle"]
    /\ subMatrixList = <<>>
    /\ written = <<>>
    /\ icePc = IF call = "iceNormalisation" THEN "start" ELSE "idle"
    /\ icePut = 0
    /\ iceQueue = <<>>
    /\ iwPc = [w \in NormWorkers |-> "idle"]
    /\ iceOut = {}

elVars == <<elPc, elPut, inQueue, outQueue, csPc, colSumList, lowBinsDict>>
ssVars == <<ssPc, ssPut, lowBins, sInQueue, sOutQueue, svPc, subMatrixList, written>>
iceVars == <<icePc, icePut, iceQueue, iwPc, iceOut>>
argVars == <<matrixList, files, regionIndices, regionOrder, call, minCount, rmDiag, nThreads>>

ArgsValidMut(count) == TRUE

\* "if not isinstance(minCount, int) or minCount < 0: raise ValueError"
ArgsValid(count) == count >= 0

Started == [w \in NormWorkers |-> IF w <= nThreads THEN "run" ELSE "idle"]
Ended(pc) == \A w \in NormWorkers : pc[w] \in {"idle", "done", "failed"}
Stops == [i \in 1..nThreads |-> Stop]

\* extractLowBins: the processes are created and started
ExtractStart ==
    /\ elPc = "start"
    /\ ArgsValid(minCount)
    /\ csPc' = Started
    /\ elPc' = "put"
    /\ elPut' = 0
    /\ inQueue' = <<>>
    /\ outQueue' = <<>>
    /\ colSumList' = <<>>
    /\ UNCHANGED <<lowBinsDict, argVars, ssVars, iceVars, binVars, gmVars, pairVars, extVars>>

\* extractLowBins: "for matrix in self.matrixList: inQueue.put(matrix)"
ExtractPut ==
    /\ elPc = "put"
    /\ elPut < Len(matrixList)
    /\ inQueue' = Append(inQueue, matrixList[elPut + 1])
    /\ elPut' = elPut + 1
    /\ elPc' = IF elPut + 1 = Len(matrixList) THEN "get" ELSE "put"
    /\ UNCHANGED <<outQueue, csPc, colSumList, lowBinsDict, argVars, ssVars, iceVars,
                   binVars, gmVars, pairVars, extVars>>

\* extractLowBins: "colSumList.append(outQueue.get())", then the None values
\* once every matrix has been answered
ExtractGet ==
    /\ elPc = "get"
    /\ outQueue # <<>>
    /\ colSumList' = Append(colSumList, Head(outQueue))
    /\ outQueue' = Tail(outQueue)
    /\ IF Len(colSumList) + 1 = Len(matrixList)
       THEN /\ inQueue' = inQueue \o Stops
            /\ elPc' = "join"
       ELSE UNCHANGED <<inQueue, elPc>>
    /\ UNCHANGED <<elPut, csPc, lowBinsDict, argVars, ssVars, iceVars, binVars, gmVars, pairVars, extVars>>

\* extractLowBins: the processes are joined and the low bins calculated
ExtractReturn ==
    /\ elPc = "join"
    /\ Ended(csPc)
    /\ lowBinsDict' = LowBinsDict(colSumList, regionIndices, minCount)
    /\ elPc' = "done"
    /\ UNCHANGED <<elPut, inQueue, outQueue, csPc, colSumList, argVars, ssVars, iceVars,
                   binVars, gmVars, pairVars, extVars>>

\* __colSumsMatrix: one matrix read, checked and summed
ColSums(w) ==
    /\ csPc[w] = "run"
    /\ inQueue # <<>>
    /\ Head(inQueue) # Stop
    /\ IsSymmetric(LoadCounts(files[Head(inQueue)], rmDiag))
    /\ outQueue' = Append(outQueue,
          BinSums(LoadCounts(files[Head(inQueue)], rmDiag), regionIndices, regionOrder,
                  Len(regionOrder)))
    /\ inQueue' = Tail(inQueue)
    /\ UNCHANGED <<elPc, elPut, csPc, colSumList, lowBinsDict, argVars, ssVars, iceVars,
                   binVars, gmVars, pairVars, extVars>>

\* __colSumsMatrix: "raise ValueError('Matrix must be symetrical')" ends the process
ColSumsRaise(w) ==
    /\ csPc[w] = "run"
    /\ inQueue # <<>>
    /\ Head(inQueue) # Stop
    /\ ~IsSymmetric(LoadCounts(files[Head(inQueue)], rmDiag))
    /\ inQueue' = Tail(inQueue)
    /\ csPc' = [csPc EXCEPT ![w] = "failed"]
    /\ UNCHANGED <<elPc, elPut, outQueue, colSumList, lowBinsDict, argVars, ssVars,
                   iceVars, binVars, gmVars, pairVars, extVars>>

\* __colSumsMatrix: None received
ColSumsExit(w) ==
    /\ csPc[w] = "run"
    /\ inQueue # <<>>
    /\ Head(inQueue) = Stop
    /\ inQueue' = Tail(inQueue)
    /\ csPc' = [csPc EXCEPT ![w] = "done"]
    /\ UNCHANGED <<elPc, elPut, outQueue, colSumList, lowBinsDict, argVars, ssVars,
                   iceVars, binVars, gmVars, pairVars, extVars>>

\* saveSubMatrices: arguments checked; the low bins are all False for
\* minCount == 0 and come from extractLowBins otherwise
SaveStart ==
    /\ ssPc = "start"
    /\ ArgsValid(minCount)
    /\ IF minCount = 0
       THEN /\ lowBins' = ZeroLowBins(regionIndices)
            /\ ssPc' = "spawn"
            /\ UNCHANGED elPc
       ELSE /\ elPc' = "start"
            /\ ssPc' = "lowbins"
            /\ UNCHANGED lowBins
    /\ UNCHANGED <<elPut, inQueue, outQueue, csPc, colSumList, lowBinsDict, ssPut,
                   sInQueue, sOutQueue, svPc, subMatrixList, written, argVars, iceVars,
                   binVars, gmVars, pairVars, extVars>>

\* saveSubMatrices: extractLowBins has returned
SaveLowBins ==
    /\ ssPc = "lowbins"
    /\ elPc = "done"
    /\ lowBins' = lowBinsDict
    /\ ssPc' = "spawn"
    /\ UNCHANGED <<elVars, ssPut, sInQueue, sOutQueue, svPc, subMatrixList, written,
                   argVars, iceVars, binVars, gmVars, pairVars, extVars>>

\* saveSubMatrices: the processes are created and started
SaveSpawn ==
    /\ ssPc = "spawn"
    /\ svPc' = Started
    /\ ssPc' = "put"
    /\ UNCHANGED <<elVars, ssPut, lowBins, sInQueue, sOutQueue, subMatrixList, written,
                   argVars, iceVars, binVars, gmVars, pairVars, extVars>>

\* saveSubMatrices: "for matrix in self.matrixList: inQueue.put(matrix)"
SavePut ==
    /\ ssPc = "put"
    /\ ssPut < Len(matrixList)
    /\ sInQueue' = Append(sInQueue, matrixList[ssPut + 1])
    /\ ssPut' = ssPut + 1
    /\ ssPc' = IF ssPut + 1 = Len(matrixList) THEN "get" ELSE "put"
    /\ UNCHANGED <<elVars, lowBins, sOutQueue, svPc, subMatrixList, written, argVars,
                   iceVars, binVars, gmVars, pairVars, extVars>>

\* saveSubMatrices: "subMatrixList.extend(outQueue.get())", then the None
\* values once every matrix has been answered
SaveGet ==
    /\ ssPc = "get"
    /\ sOutQueue # <<>>
    /\ subMatrixList' = subMatrixList \o Head(sOutQueue)
    /\ sOutQueue' = Tail(sOutQueue)
    /\ IF Len(subMatrixList') = Len(matrixList) * Len(regionOrder)
       THEN /\ sInQueue' = sInQueue \o Stops
            /\ ssPc' = "join"
       ELSE UNCHANGED <<sInQueue, ssPc>>
    /\ UNCHANGED <<elVars, ssPut, lowBins, svPc, written, argVars, iceVars, binVars, gmVars, pairVars, extVars>>

\* saveSubMatrices: the processes are joined and subMatrixList returned
SaveReturn ==
    /\ ssPc = "join"
    /\ Ended(svPc)
    /\ ssPc' = "done"
    /\ UNCHANGED <<elVars, ssPut, lowBins, sInQueue, sOutQueue, svPc, subMatrixList,
                   written, argVars, iceVars, binVars, gmVars, pairVars, extVars>>

\* "if len(rLowBins) != len(indices): raise ValueError"
Uncertain(masks, regions, region) == Len(masks[region]) # Len(regions[region])

\* the first region of the dictionary at which the worker raises (0: none):
\* a mask of the wrong length, or the file name of the rmDiag=False branch
FirstRaise(masks, regions, order, diag) ==
    LET bad == {k \in 1..Len(order) : ~diag \/ Uncertain(masks, regions, order[k])}
    IN  IF bad = {} THEN 0 ELSE CHOOSE k \in bad : \A j \in bad : k <= j

\* the regions handled before the k-th of the dictionary
RegionsBefore(regions, order, k) ==
    [r \in {order[j] : j \in 1..(k - 1)} |-> regions[r]]

\* __saveSubMatrixProcess: one matrix read and its sub-matrices saved
SaveSubMatrix(w) ==
    /\ svPc[w] = "run"
    /\ svJob[w] = <<>>
    /\ sInQueue # <<>>
    /\ Head(sInQueue) # Stop
    /\ FirstRaise(lowBins, regionIndices, regionOrder, rmDiag) = 0
    /\ written' = SavedFiles(written, Head(sInQueue),
                             LoadCounts(files[Head(sInQueue)], rmDiag),
                             regionIndices, regionOrder, lowBins, minCount)
    /\ sOutQueue' = Append(sOutQueue, FileList(Head(sInQueue), regionOrder, minCount))
    /\ sInQueue' = Tail(sInQueue)
    /\ UNCHANGED <<elVars, ssPc, ssPut, lowBins, svPc, subMatrixList, argVars, iceVars,
                   binVars, gmVars, pairVars, extVars>>

\* __saveSubMatrixProcess: without rmDiag the file name is formatted with
\* self.minCount, an attribute the object does not have: AttributeError ends
\* the process before the first file is written.  A mask of the wrong length
\* ends it with ValueError, the files of the regions before it being saved
SaveSubMatrixRaise(w) ==
    /\ svPc[w] = "run"
    /\ svJob[w] = <<>>
    /\ sInQueue # <<>>
    /\ Head(sInQueue) # Stop
    /\ FirstRaise(lowBins, regionIndices, regionOrder, rmDiag) # 0
    /\ LET k == FirstRaise(lowBins, regionIndices, regionOrder, rmDiag)
       IN  written' = SavedFiles(written, Head(sInQueue),
                                 LoadCounts(files[Head(sInQueue)], rmDiag),
                                 RegionsBefore(regionIndices, regionOrder, k),
                                 SubSeq(regionOrder, 1, k - 1), lowBins, minCount)
    /\ sInQueue' = Tail(sInQueue)
    /\ svPc' = [svPc EXCEPT ![w] = "failed"]
    /\ UNCHANGED <<elVars, ssPc, ssPut, lowBins, sOutQueue, subMatrixList,
                   argVars, iceVars, binVars, gmVars, pairVars, extVars>>

\* __saveSubMatrixProcess: None received
SaveSubMatrixExit(w) ==
    /\ svPc[w] = "run"
    /\ svJob[w] = <<>>
    /\ sInQueue # <<>>
    /\ Head(sInQueue) = Stop
    /\ sInQueue' = Tail(sInQueue)
    /\ svPc' = [svPc EXCEPT ![w] = "done"]
    /\ UNCHANGED <<elVars, ssPc, ssPut, lowBins, sOutQueue, subMatrixList, written,
                   argVars, iceVars, binVars, gmVars, pairVars, extVars>>

NextLow ==
    \/ ExtractStart
    \/ ExtractPut
    \/ ExtractGet
    \/ ExtractReturn
    \/ \E w \in NormWorkers : ColSums(w)
    \/ \E w \in NormWorkers : ColSumsRaise(w)
    \/ \E w \in NormWorkers : ColSumsExit(w)
    \/ SaveStart
    \/ SaveLowBins
    \/ SaveSpawn
    \/ SavePut
    \/ SaveGet
    \/ SaveReturn
    \/ \E w \in NormWorkers : SaveSubMatrix(w)
    \/ \E w \in NormWorkers : SaveSubMatrixRaise(w)
    \/ \E w \in NormWorkers : SaveSubMatrixExit(w)

\* iceNormalisation: arguments checked, saveSubMatrices called
IceStart ==
    /\ icePc = "start"
    /\ ArgsValid(minCount)
    /\ ssPc' = "start"
    /\ icePc' = "submatrices"
    /\ UNCHANGED <<elVars, ssPut, lowBins, sInQueue, sOutQueue, svPc, subMatrixList,
                   written, icePut, iceQueue, iwPc, iceOut, argVars, binVars, gmVars, pairVars, extVars>>

\* iceNormalisation: saveSubMatrices has returned; the processes are started
IceSpawn ==
    /\ icePc = "submatrices"
    /\ ssPc = "done"
    /\ iwPc' = Started
    /\ icePc' = "put"
    /\ UNCHANGED <<elVars, ssVars, icePut, iceQueue, iceOut, argVars, binVars, gmVars, pairVars, extVars>>

\* iceNormalisation: "for matrix in subMatrices: inQueue.put(matrix)"
IcePut ==
    /\ icePc = "put"
    /\ icePut < Len(subMatrixList)
    /\ iceQueue' = Append(iceQueue, subMatrixList[icePut + 1])
    /\ icePut' = icePut + 1
    /\ UNCHANGED <<elVars, ssVars, icePc, iwPc, iceOut, argVars, binVars, gmVars, pairVars, extVars>>

\* iceNormalisation: "for _ in range(threads): inQueue.put(None)"
IceStop ==
    /\ icePc = "put"
    /\ icePut = Len(subMatrixList)
    /\ iceQueue' = iceQueue \o Stops
    /\ icePc' = "join"
    /\ UNCHANGED <<elVars, ssVars, icePut, iwPc, iceOut, argVars, binVars, gmVars, pairVars, extVars>>

\* iceNormalisation: every process joined; the call returns
IceReturn ==
    /\ icePc = "join"
    /\ Ended(iwPc)
    /\ icePc' = "returned"
    /\ UNCHANGED <<elVars, ssVars, icePut, iceQueue, iwPc, iceOut, argVars, binVars, gmVars, pairVars, extVars>>

\* __iceNormalisationProcess: one sub-matrix normalised, bias and normMatrix saved
IceNormalise(w) ==
    /\ iwPc[w] = "run"
    /\ iwJob[w] = <<>>
    /\ iceQueue # <<>>
    /\ Head(iceQueue) # Stop
    /\ IceInputOk(written[Head(iceQueue)])
    /\ iceOut' = iceOut \cup {Head(iceQueue)}
    /\ iceQueue' = Tail(iceQueue)
    /\ UNCHANGED <<elVars, ssVars, icePc, icePut, iwPc, argVars, binVars, gmVars, pairVars, extVars>>

\* __iceNormalisationProcess: ValueError on the shape or the symmetry of the
\* sub-matrix ends the process
IceRaise(w) ==
    /\ iwPc[w] = "run"
    /\ iwJob[w] = <<>>
    /\ iceQueue # <<>>
    /\ Head(iceQueue) # Stop
    /\ ~IceInputOk(written[Head(iceQueue)])
    /\ iceQueue' = Tail(iceQueue)
    /\ iwPc' = [iwPc EXCEPT ![w] = "failed"]
    /\ UNCHANGED <<elVars, ssVars, icePc, icePut, iceOut, argVars, binVars, gmVars, pairVars, extVars>>

\* __iceNormalisationProcess: None received
IceExit(w) ==
    /\ iwPc[w] = "run"
    /\ iwJob[w] = <<>>
    /\ iceQueue # <<>>
    /\ Head(iceQueue) = Stop
    /\ iceQueue' = Tail(iceQueue)
    /\ iwPc' = [iwPc EXCEPT ![w] = "done"]
    /\ UNCHANGED <<elVars, ssVars, icePc, icePut, iceOut, argVars, binVars, gmVars, pairVars, extVars>>

NextIce ==
    \/ NextLow
    \/ IceStart
    \/ IceSpawn
    \/ IcePut
    \/ IceStop
    \/ IceReturn
    \/ \E w \in NormWorkers : IceNormalise(w)
    \/ \E w \in NormWorkers : IceRaise(w)
    \/ \E w \in NormWorkers : IceExit(w)

InitIce ==
    /\ BinIdle
    /\ GmIdle
    /\ ExtIdle
    /\ NormObject(MatrixLists, CountFiles, RegionSetups, {"iceNormalisation"},
                  0..MaxMinCount)

SpecIce == InitIce /\ [][NextIce]_vars

InitLow ==
    /\ BinIdle
    /\ GmIdle
    /\ ExtIdle
    /\ NormObject(MatrixLists, CountFiles, RegionSetups,
                  {"extractLowBins", "saveSubMatrices"}, 0..MaxMinCount)

SpecLow == InitLow /\ [][NextLow]_vars

(***************************************************************************)
(* __iceNormalisationProcess on one sub-matrix.  The float64 values are    *)
(* kept as exact fractions [n, d] in lowest terms (no rounding error is    *)
(* modelled), with nan, which numpy produces for the mean of an empty      *)
(* selection and hands on through every operation, as [n |-> 0, d |-> 0].  *)
(* The counts are non-negative, so no value is negative.                   *)
(***************************************************************************)
Nan == [n |-> 0, d |-> 0]
IsNan(x) == x.d = 0

RECURSIVE GCD(_, _)
GCD(a, b) == IF b = 0 THEN a ELSE GCD(b, a % b)

Frac(n, d) == LET g == GCD(n, d) IN [n |-> n \div g, d |-> d \div g]

One == Frac(1, 1)
Zero == Frac(0, 1)

FAdd(x, y) ==
    IF IsNan(x) \/ IsNan(y) THEN Nan
    ELSE LET g == GCD(x.d, y.d)
         IN  Frac((x.n * (y.d \div g)) + (y.n * (x.d \div g)), (x.d \div g) * y.d)

\* x / y; 0 / 0 is nan, and no other division by 0 arises
FDiv(x, y) ==
    IF IsNan(x) \/ IsNan(y) \/ y.n = 0 THEN Nan
    ELSE LET g1 == GCD(x.n, y.n)
             g2 == GCD(x.d, y.d)
         IN  Frac((x.n \div g1) * (y.d \div g2), (x.d \div g2) * (y.n \div g1))

FMul(x, y) ==
    IF IsNan(x) \/ IsNan(y) THEN Nan
    ELSE LET g1 == GCD(x.n, y.d)
             g2 == GCD(y.n, x.d)
         IN  Frac((x.n \div g1) * (y.n \div g2), (x.d \div g2) * (y.d \div g1))

RECURSIVE FSum(_)
FSum(s) == IF s = <<>> THEN Zero ELSE FAdd(Head(s), FSum(Tail(s)))

\* "x == 0" and "x != 0" of numpy: nan is not equal to 0
IsZero(x) == ~IsNan(x) /\ x.n = 0

\* "x == y" of numpy: nan is equal to nothing, itself included
FEq(x, y) == ~IsNan(x) /\ ~IsNan(y) /\ x = y

\* inMatrix.sum(axis=0)
ColumnSums(m) == [j \in 1..Len(m) |-> FSum([i \in 1..Len(m) |-> m[i][j]])]

\* dbias[dbias != 0].mean(): nan for an empty selection
NonZeroMean(v) ==
    LET sel == Ascending({j \in 1..Len(v) : ~IsZero(v[j])})
    IN  IF sel = <<>> THEN Nan
        ELSE FDiv(FSum([k \in 1..Len(sel) |-> v[sel[k]]]), Frac(Len(sel), 1))

\* dbias of one iteration: column sums over their non-zero mean, 0 set to 1
Dbias(m) ==
    LET sums == ColumnSums(m)
        mean == NonZeroMean(sums)
        scaled == [j \in 1..Len(m) |-> FDiv(sums[j], mean)]
    IN  [j \in 1..Len(m) |-> IF IsZero(scaled[j]) THEN One ELSE scaled[j]]

\* "inMatrix /= dbias; inMatrix /= dbias.T"
ApplyBias(m, dbias) ==
    [i \in 1..Len(m) |-> [j \in 1..Len(m) |-> FDiv(FDiv(m[i][j], dbias[i]), dbias[j])]]

\* (inMatrix.sum(axis=0) > 0).sum()
DesiredSum(m) ==
    LET sums == ColumnSums(m)
    IN  Cardinality({j \in 1..Len(m) : ~IsNan(sums[j]) /\ sums[j].n > 0})

\* inMatrix.sum()
Total(m) == FSum(ColumnSums(m))

\* "np.all(inMatrix == inMatrix.T)"
FSymmetric(m) == \A i \in 1..Len(m) : \A j \in 1..Len(m) : FEq(m[i][j], m[j][i])

\* an entry of the matrix saved: the count of the sub-matrix divided by the
\* bias of its row and of its column as read back from the bias file.  The
\* values read back (the bias times sqrt(total / desired_sum), rounded to 8
\* decimals) are not computed: an entry keeps its count and the pair of
\* bins whose bias divides it, a zero count gives 0 and a nan bias gives nan
NormEntry(m, b, scale, i, j) ==
    IF IsNan(b[i]) \/ IsNan(b[j]) \/ IsNan(scale) THEN [kind |-> "nan", count |-> 0, by |-> {}]
    ELSE IF m[i][j] = 0 THEN [kind |-> "num", count |-> 0, by |-> {}]
    ELSE [kind |-> "num", count |-> m[i][j], by |-> {i, j}]

MaxEntry == 2
MaxIter == 2
IceInputs == [1..2 -> [1..2 -> 0..MaxEntry]]

InitNum ==
    /\ BinIdle
    /\ GmIdle
    /\ NormIdle
    /\ RegIdle
    /\ WrIdle
    /\ PairIdle
    /\ iceCounts \in IceInputs
    /\ iceMatrix = <<>>
    /\ bias = <<>>
    /\ iceIter = 0
    /\ numPc = "load"
    /\ normMatrix = <<>>

\* the sub-matrix is read and found square and symmetric
NumLoad ==
    /\ numPc = "load"
    /\ IsSymmetric(iceCounts)
    /\ iceMatrix' = [i \in 1..Len(iceCounts) |->
                        [j \in 1..Len(iceCounts) |-> Frac(iceCounts[i][j], 1)]]
    /\ bias' = [i \in 1..Len(iceCounts) |-> One]
    /\ iceIter' = 0
    /\ numPc' = "loop"
    /\ UNCHANGED <<iceCounts, normMatrix, binVars, gmVars, pairVars, normVars, regVars, wrVars>>

\* "raise ValueError('Matrix must be symetrical')"
NumLoadRaise ==
    /\ numPc = "load"
    /\ ~IsSymmetric(iceCounts)
    /\ numPc' = "failed"
    /\ UNCHANGED <<iceCounts, iceMatrix, bias, iceIter, normMatrix, binVars, gmVars, pairVars,
                   normVars, regVars, wrVars>>

\* one pass of "for it in xrange(max_iter)".  The loop is left when the
\* change of dbias is below min_diff, which any change but nan is for some
\* min_diff, and after the last pass
NumIterate ==
    /\ numPc = "loop"
    /\ iceIter < MaxIter
    /\ LET dbias == Dbias(iceMatrix)
       IN  /\ bias' = [i \in 1..Len(bias) |-> FMul(bias[i], dbias[i])]
           /\ iceMatrix' = ApplyBias(iceMatrix, dbias)
           /\ iceIter' = iceIter + 1
           /\ \/ numPc' = "scale" /\ (iceIter + 1 = MaxIter \/ \A i \in 1..Len(dbias) : ~IsNan(dbias[i]))
              \/ numPc' = "loop" /\ iceIter + 1 < MaxIter
    /\ UNCHANGED <<iceCounts, normMatrix, binVars, gmVars, pairVars, normVars, regVars, wrVars>>

\* the bias is scaled, saved and read back, and the matrix normalised with
\* it is saved
NumSave ==
    /\ numPc = "scale"
    /\ LET scale == FDiv(Total(iceMatrix), Frac(DesiredSum(iceMatrix), 1))
       IN  normMatrix' = [i \in 1..Len(iceCounts) |-> [j \in 1..Len(iceCounts) |->
                              NormEntry(iceCounts, bias, scale, i, j)]]
    /\ numPc' = "done"
    /\ UNCHANGED <<iceCounts, iceMatrix, bias, iceIter, binVars, gmVars, pairVars, normVars,
                   regVars, wrVars>>

NextNum == NumLoad \/ NumLoadRaise \/ NumIterate \/ NumSave

SpecNum == InitNum /\ [][NextNum]_vars

(***************************************************************************)
(* The workers of saveSubMatrices and iceNormalisation file by file: a     *)
(* worker holds a file open from the moment np.savetxt creates it until    *)
(* the moment it is complete.                                              *)
(***************************************************************************)
\* __saveSubMatrixProcess: a matrix is taken and read, and the file of the
\* first region of the dictionary is opened
SaveOpen(w) ==
    /\ svPc[w] = "run"
    /\ svJob[w] = <<>>
    /\ sInQueue # <<>>
    /\ Head(sInQueue) # Stop
    /\ FirstRaise(lowBins, regionIndices, regionOrder, rmDiag) = 0
    /\ svJob' = [svJob EXCEPT ![w] = <<Head(sInQueue), 1>>]
    /\ sInQueue' = Tail(sInQueue)
    /\ UNCHANGED <<elVars, ssPc, ssPut, lowBins, sOutQueue, svPc, subMatrixList,
                   written, argVars, iceVars, binVars, gmVars, pairVars, regVars, numVars, iwJob>>

\* __saveSubMatrixProcess: the file of a region is complete; the file of the
\* next region is opened, or the file list is put on outQueue
SaveClose(w) ==
    /\ svJob[w] # <<>>
    /\ LET matrix == svJob[w][1]
           k == svJob[w][2]
           region == regionOrder[k]
       IN  /\ written' = SavedFiles(written, matrix, LoadCounts(files[matrix], rmDiag),
                                    [r \in {region} |-> regionIndices[r]], <<region>>,
                                    lowBins, minCount)
           /\ IF k < Len(regionOrder)
              THEN /\ svJob' = [svJob EXCEPT ![w] = <<matrix, k + 1>>]
                   /\ UNCHANGED sOutQueue
              ELSE /\ svJob' = [svJob EXCEPT ![w] = <<>>]
                   /\ sOutQueue' = Append(sOutQueue, FileList(matrix, regionOrder, minCount))
    /\ UNCHANGED <<elVars, ssPc, ssPut, lowBins, sInQueue, svPc, subMatrixList,
                   argVars, iceVars, binVars, gmVars, pairVars, regVars, numVars, iwJob>>

\* the path a worker of saveSubMatrices has open
SavePath(job) == OutPath(job[1], regionOrder[job[2]], minCount)

\* __iceNormalisationProcess: a sub-matrix is taken, read and iterated, and
\* its bias file (outPrefix + '.bias.gz') is opened
IceOpen(w) ==
    /\ iwPc[w] = "run"
    /\ iwJob[w] = <<>>
    /\ iceQueue # <<>>
    /\ Head(iceQueue) # Stop
    /\ IceInputOk(written[Head(iceQueue)])
    /\ iwJob' = [iwJob EXCEPT ![w] = <<Head(iceQueue), "bias">>]
    /\ iceQueue' = Tail(iceQueue)
    /\ UNCHANGED <<elVars, ssVars, icePc, icePut, iwPc, iceOut, argVars, binVars, gmVars, pairVars,
                   regVars, numVars, svJob>>

\* __iceNormalisationProcess: the bias file is complete and the normMatrix
\* file is opened, or the normMatrix file is complete
IceClose(w) ==
    /\ iwJob[w] # <<>>
    /\ IF iwJob[w][2] = "bias"
       THEN /\ iwJob' = [iwJob EXCEPT ![w] = <<iwJob[w][1], "normMatrix">>]
            /\ UNCHANGED iceOut
       ELSE /\ iwJob' = [iwJob EXCEPT ![w] = <<>>]
            /\ iceOut' = iceOut \cup {iwJob[w][1]}
    /\ UNCHANGED <<elVars, ssVars, icePc, icePut, iceQueue, iwPc, argVars, binVars, gmVars, pairVars,
                   regVars, numVars, svJob>>

\* matrix lists the constructor accepts: it looks at the suffix and at the
\* header of the files, not at their names
WriteLists == {<<<<"d1", "s1">>, <<"d1", "s2">>>>, <<<<"d1", "s1">>, <<"d2", "s1">>>>}

InitWrite ==
    /\ BinIdle
    /\ GmIdle
    /\ RegIdle
    /\ NumIdle
    /\ WrIdle
    /\ PairIdle
    /\ NormObject(WriteLists, SymMatrices, RegionSetups, {"iceNormalisation"}, {0})

NextWrite ==
    \/ IceStart
    \/ SaveStart
    \/ SaveSpawn
    \/ SavePut
    \/ SaveGet
    \/ SaveReturn
    \/ \E w \in NormWorkers : SaveOpen(w)
    \/ \E w \in NormWorkers : SaveClose(w)
    \/ \E w \in NormWorkers : SaveSubMatrixRaise(w)
    \/ \E w \in NormWorkers : SaveSubMatrixExit(w)
    \/ IceSpawn
    \/ IcePut
    \/ IceStop
    \/ IceReturn
    \/ \E w \in NormWorkers : IceOpen(w)
    \/ \E w \in NormWorkers : IceClose(w)
    \/ \E w \in NormWorkers : IceRaise(w)
    \/ \E w \in NormWorkers : IceExit(w)

SpecWrite == InitWrite /\ [][NextWrite]_vars

(***************************************************************************)
(* normaliseCountMatrices.__extractRegionIndices.  The region file is the  *)
(* sequence of its lines <<chrom, start, end, region>>; the bins are those *)
(* of the header of the count matrices.                                    *)
(***************************************************************************)
RegionHeader == <<<<"chr1", 1, 5>>, <<"chr1", 6, 10>>, <<"chr2", 1, 5>>>>

\* np.where(acceptableBins)[0]
SegmentBins(header, line) ==
    Ascending({k \in 0..(Len(header) - 1) :
                  /\ header[k + 1][1] = line[1]
                  /\ header[k + 1][2] >= line[2]
                  /\ header[k + 1][3] <= line[3]})

\* regionIndices[region] after the first n lines of the file
RECURSIVE RegionConcat(_, _, _, _)
RegionConcat(header, lines, region, n) ==
    IF n = 0 THEN <<>>
    ELSE IF lines[n][4] = region
         THEN RegionConcat(header, lines, region, n - 1) \o SegmentBins(header, lines[n])
         ELSE RegionConcat(header, lines, region, n - 1)

\* indices.sort()
RECURSIVE SortIndices(_)
SortIndices(seq) ==
    IF seq = <<>> THEN <<>>
    ELSE LET i == CHOOSE x \in 1..Len(seq) : \A y \in 1..Len(seq) : seq[x] <= seq[y]
         IN  <<seq[i]>> \o SortIndices(SubSeq(seq, 1, i - 1) \o SubSeq(seq, i + 1, Len(seq)))

RegionNames(lines) == {lines[n][4] : n \in 1..Len(lines)}

RegionRaisesMut(header, lines) ==
    \E region \in RegionNames(lines) :
        Len(RegionConcat(header, lines, region, Len(lines))) = 0

\* "if len(indices) == 0" and "if len(set(indices)) != len(indices)"
RegionRaises(header, lines) ==
    \E region \in RegionNames(lines) :
        LET indices == RegionConcat(header, lines, region, Len(lines))
        IN  \/ Len(indices) = 0
            \/ Cardinality({indices[k] : k \in 1..Len(indices)}) # Len(indices)

ExtractRegionIndices(header, lines) ==
    [region \in RegionNames(lines) |->
        SortIndices(RegionConcat(header, lines, region, Len(lines)))]

\* the orders in which a dictionary may yield its keys
KeyOrders(keys) ==
    {o \in [1..Cardinality(keys) -> keys] : \A i, j \in DOMAIN o : i # j => o[i] # o[j]}

MaxRegionLines == 2
RegionLine ==
    {<<c, a, b, r>> : c \in ChrNames, a \in {1, 2, 6}, b \in {5, 9, 10}, r \in {"A", "B"}}
RegionFiles(n) == [1..n -> RegionLine]

InitRegion ==
    /\ BinIdle
    /\ GmIdle
    /\ NormIdle
    /\ WrIdle
    /\ PairIdle
    /\ NumIdle
    /\ \E n \in 1..MaxRegionLines : regionFile \in RegionFiles(n)
    /\ regPc = "start"

\* normaliseCountMatrices.__init__: the region dictionary is built
ExtractRegions ==
    /\ regPc = "start"
    /\ ~RegionRaises(RegionHeader, regionFile)
    /\ regionIndices' = ExtractRegionIndices(RegionHeader, regionFile)
    /\ regionOrder' \in KeyOrders(RegionNames(regionFile))
    /\ regPc' = "done"
    /\ UNCHANGED <<regionFile, matrixList, files, call, minCount, rmDiag, nThreads,
                   elVars, ssVars, iceVars, binVars, gmVars, pairVars, wrVars, numVars>>

\* normaliseCountMatrices.__init__: IOError, no object is made
ExtractRegionsRaise ==
    /\ regPc = "start"
    /\ RegionRaises(RegionHeader, regionFile)
    /\ regPc' = "failed"
    /\ UNCHANGED <<regionFile, normVars, binVars, gmVars, pairVars, wrVars, numVars>>

NextRegion == ExtractRegions \/ ExtractRegionsRaise

SpecRegion == InitRegion /\ [][NextRegion]_vars

\* extractLowBins: minCount refused
ExtractArgRaise ==
    /\ elPc = "start"
    /\ ~ArgsValid(minCount)
    /\ elPc' = "raised"
    /\ UNCHANGED <<elPut, inQueue, outQueue, csPc, colSumList, lowBinsDict, argVars,
                   ssVars, iceVars, binVars, gmVars, pairVars, extVars>>

\* saveSubMatrices: minCount refused
SaveArgRaise ==
    /\ ssPc = "start"
    /\ ~ArgsValid(minCount)
    /\ ssPc' = "raised"
    /\ UNCHANGED <<elVars, ssPut, lowBins, sInQueue, sOutQueue, svPc, subMatrixList,
                   written, argVars, iceVars, binVars, gmVars, pairVars, extVars>>

\* iceNormalisation: minCount refused
IceArgRaise ==
    /\ icePc = "start"
    /\ ~ArgsValid(minCount)
    /\ icePc' = "raised"
    /\ UNCHANGED <<elVars, ssVars, icePut, iceQueue, iwPc, iceOut, argVars, binVars,
                   gmVars, pairVars, extVars>>

\* the three public calls with any integer minCount, and the worker of
\* saveSubMatrices run on its own with masks of any length
MinMinCount == 1
MaxMask == 2
Masks == UNION {[1..n -> BOOLEAN] : n \in 1..MaxMask}

InitArgs ==
    /\ BinIdle
    /\ GmIdle
    /\ ExtIdle
    /\ \/ NormObject({<<<<"d1", "s1">>>>}, CountFiles, RegionSetups,
                     {"extractLowBins", "saveSubMatrices", "iceNormalisation"},
                     (0 - MinMinCount)..MaxMinCount)
       \/ /\ matrixList = <<<<"d1", "s1">>>>
          /\ files \in [Paths(matrixList) -> SymMatrices]
          /\ \E setup \in RegionSetups :
                /\ regionIndices = setup.indices
                /\ regionOrder = setup.order
          /\ call = "saveSubMatrixProcess"
          /\ minCount \in 0..MaxMinCount
          /\ rmDiag \in BOOLEAN
          /\ nThreads = 1
          /\ elPc = "idle"
          /\ elPut = 0
          /\ inQueue = <<>>
          /\ outQueue = <<>>
          /\ csPc = [w \in NormWorkers |-> "idle"]
          /\ colSumList = <<>>
          /\ lowBinsDict = <<>>
          /\ ssPc = "idle"
          /\ ssPut = 0
          /\ lowBins \in [DOMAIN regionIndices -> Masks]
          /\ sInQueue = matrixList \o <<Stop>>
          /\ sOutQueue = <<>>
          /\ svPc = Started
          /\ subMatrixList = <<>>
          /\ written = <<>>
          /\ icePc = "idle"
          /\ icePut = 0
          /\ iceQueue = <<>>
          /\ iwPc = [w \in NormWorkers |-> "idle"]
          /\ iceOut = {}

NextArgs ==
    \/ NextIce
    \/ ExtractArgRaise
    \/ SaveArgRaise
    \/ IceArgRaise

SpecArgs == InitArgs /\ [][NextArgs]_vars

(***************************************************************************)
(* alignedPair.concordant and alignedPair.processPairs                     *)
(***************************************************************************)
\* concordant(reads, maxSize): reads is (chr, start, end, strand) of the
\* first read followed by the same of the second (reads[0] is reads[1] here)
Concordant(reads, size) ==
    IF reads[1] = reads[5] /\ reads[4] # reads[8]
    THEN IF reads[4] = "+"
         THEN LET distance == reads[7] - reads[2]
              IN  IF distance < size
                  THEN reads[6] >= reads[2] /\ reads[7] >= reads[3]
                  ELSE FALSE
         ELSE IF reads[4] = "-"
              THEN LET distance == reads[3] - reads[6]
                   IN  IF distance < size
                       THEN reads[3] >= reads[7] /\ reads[2] >= reads[6]
                       ELSE FALSE
              ELSE FALSE
    ELSE FALSE

\* pairCount is a collections.defaultdict(int): a key exists once it has
\* been incremented and a key that does not exist reads as 0
Count(counts, key) == IF key \in DOMAIN counts THEN counts[key] ELSE 0

AddOne(counts, key) ==
    IF key \in DOMAIN counts THEN [counts EXCEPT ![key] = @ + 1]
    ELSE counts @@ (key :> 1)

\* outData = '\t'.join(map(str, pair)) + '\n': the fields of the pair
OutData(pair) == pair

PairStepMut(pair, counts, seen, out, dupFlag, concordFlag, size) ==
    LET dup == pair \in (seen \cup {pair})
        c1 == AddOne(counts, "total")
        c2 == IF dup THEN AddOne(c1, "duplicate") ELSE AddOne(c1, "unique")
        concord == Concordant(pair, size)
        c3 == IF concord
              THEN IF ~dup THEN AddOne(AddOne(c2, "concord"), "concorduni")
                   ELSE AddOne(c2, "concord")
              ELSE IF ~dup THEN AddOne(AddOne(c2, "discord"), "discorduni")
                   ELSE AddOne(c2, "discord")
        skip == IF dup /\ dupFlag THEN TRUE ELSE concord /\ concordFlag
    IN  [pairCount |-> c3,
         pairSet |-> seen \cup {pair},
         outObject |-> IF skip THEN out
                       ELSE [out EXCEPT !.lines = Append(@, OutData(pair))]]

\* processPairs: one turn of the "while True" loop for a pair that is not None
PairStep(pair, counts, seen, out, dupFlag, concordFlag, size) ==
    LET dup == pair \in seen
        c1 == AddOne(counts, "total")
        c2 == IF dup THEN AddOne(c1, "duplicate") ELSE AddOne(c1, "unique")
        concord == Concordant(pair, size)
        c3 == IF concord
              THEN IF ~dup THEN AddOne(AddOne(c2, "concord"), "concorduni")
                   ELSE AddOne(c2, "concord")
              ELSE IF ~dup THEN AddOne(AddOne(c2, "discord"), "discorduni")
                   ELSE AddOne(c2, "discord")
        skip == IF dup /\ dupFlag THEN TRUE ELSE concord /\ concordFlag
    IN  [pairCount |-> c3,
         pairSet |-> IF dup THEN seen ELSE seen \cup {pair},
         outObject |-> IF skip THEN out
                       ELSE [out EXCEPT !.lines = Append(@, OutData(pair))]]

\* read pairs as extractPairs builds them
MaxPairs == 2
MaxSize == 3
Strands == {"+", "-"}
ReadEnds == {<<"chr1", 1, 2>>, <<"chr1", 1, 3>>}
Reads == {<<r[1], r[2], r[3], d>> : r \in ReadEnds, d \in Strands}
             \cup {<<"chr2", 1, 2, "+">>}
ReadPairs == {a \o b : a \in Reads, b \in Reads}

InitPairs ==
    /\ \E n \in 0..MaxPairs : pairStream \in [1..n -> ReadPairs]
    /\ xpPos = 0
    /\ xpPc = "send"
    /\ xpResult = <<>>
    /\ pairPipe = <<>>
    /\ backPipe = <<>>
    /\ pairCount = <<>>
    /\ pairSet = {}
    /\ outObject = [lines |-> <<>>, closed |-> FALSE]
    /\ ppPc = "recv"
    /\ rmDup \in BOOLEAN
    /\ rmConcord \in BOOLEAN
    /\ maxSize \in 1..MaxSize
    /\ BinIdle
    /\ GmIdle
    /\ NormIdle
    /\ RegIdle
    /\ WrIdle
    /\ NumIdle

\* extractPairs: "pipes[1].send(output)"
XpSendPair ==
    /\ xpPc = "send"
    /\ xpPos < Len(pairStream)
    /\ pairPipe' = Append(pairPipe, pairStream[xpPos + 1])
    /\ xpPos' = xpPos + 1
    /\ UNCHANGED <<pairStream, xpPc, xpResult, backPipe, pairCount, pairSet, outObject,
                   ppPc, rmDup, rmConcord, maxSize, binVars, gmVars, normVars, extVars>>

\* extractPairs: end of the BAM file, "pipes[1].send(None)"
XpSendNone ==
    /\ xpPc = "send"
    /\ xpPos = Len(pairStream)
    /\ pairPipe' = Append(pairPipe, None)
    /\ xpPc' = "recv"
    /\ UNCHANGED <<pairStream, xpPos, xpResult, backPipe, pairCount, pairSet, outObject,
                   ppPc, rmDup, rmConcord, maxSize, binVars, gmVars, normVars, extVars>>

\* extractPairs: "pairCount = pipes[1].recv()" and the return
XpRecvCounts ==
    /\ xpPc = "recv"
    /\ backPipe # <<>>
    /\ xpResult' = Head(backPipe)
    /\ backPipe' = Tail(backPipe)
    /\ xpPc' = "done"
    /\ UNCHANGED <<pairStream, xpPos, pairPipe, pairCount, pairSet, outObject,
                   ppPc, rmDup, rmConcord, maxSize, binVars, gmVars, normVars, extVars>>

\* processPairs: "pair = pipe.recv()" gives a pair
RecvPair ==
    /\ ppPc = "recv"
    /\ pairPipe # <<>>
    /\ Head(pairPipe) # None
    /\ LET r == PairStep(Head(pairPipe), pairCount, pairSet, outObject,
                         rmDup, rmConcord, maxSize)
       IN  /\ pairCount' = r.pairCount
           /\ pairSet' = r.pairSet
           /\ outObject' = r.outObject
    /\ pairPipe' = Tail(pairPipe)
    /\ UNCHANGED <<pairStream, xpPos, xpPc, xpResult, backPipe,
                   ppPc, rmDup, rmConcord, maxSize, binVars, gmVars, normVars, extVars>>

\* processPairs: "pair = pipe.recv()" gives None, "break"
RecvNone ==
    /\ ppPc = "recv"
    /\ pairPipe # <<>>
    /\ Head(pairPipe) = None
    /\ pairPipe' = Tail(pairPipe)
    /\ ppPc' = "close"
    /\ UNCHANGED <<pairStream, xpPos, xpPc, xpResult, backPipe, pairCount, pairSet,
                   outObject, rmDup, rmConcord, maxSize, binVars, gmVars, normVars, extVars>>

\* processPairs: "outObject.close()", "pipe.send(pairCount)", "pipe.close()"
SendCounts ==
    /\ ppPc = "close"
    /\ outObject' = [outObject EXCEPT !.closed = TRUE]
    /\ backPipe' = Append(backPipe, pairCount)
    /\ ppPc' = "ended"
    /\ UNCHANGED <<pairStream, xpPos, xpPc, xpResult, pairPipe, pairCount, pairSet,
                   rmDup, rmConcord, maxSize, binVars, gmVars, normVars, extVars>>

NextPairs ==
    \/ XpSendPair
    \/ XpSendNone
    \/ XpRecvCounts
    \/ RecvPair
    \/ RecvNone
    \/ SendCounts

SpecPairs == InitPairs /\ [][NextPairs]_vars

(***************************************************************************)
(* Properties of the bin index (checked under SpecBins)                    *)
(***************************************************************************)
Built == binPc \in {"built", "queried"}

ChrIndexes == 1..Len(binData.chrData)
ChrName(k) == binData.chrData[k][1]
ChrLength(k) == binData.chrData[k][2]

\* number of positions covered by the bins of one chromosome
Covered(e) == SumSeq([i \in 1..e.count |-> (e.end[i] - e.start[i]) + 1])

\* each bin starts right after the previous one and none is empty
Contiguous(e) ==
    /\ \A i \in 1..e.count : e.start[i] <= e.end[i]
    /\ \A i \in 2..e.count : e.start[i] = e.end[i - 1] + 1

ValidIndex(r) == r.kind = "index" /\ r.index \in 0..(binCount - 1)

ScenarioChrData == <<<<"chr1", 10>>, <<"chr2", 7>>>>

FourBins ==
    /\ binNames = <<<<"chr1", 1, 5>>, <<"chr1", 6, 10>>, <<"chr2", 1, 4>>, <<"chr2", 5, 7>>>>
    /\ binDict["chr1"].index = <<0, 1>>
    /\ binDict["chr2"].index = <<2, 3>>
    /\ binCount = 4

Symmetric(m) == \A i \in DOMAIN m : \A j \in DOMAIN m : m[i][j] = m[j][i]

\* worker w has just taken the pair at the head of the queue
Processed(w) == fragQueue # <<>> /\ wLog'[w] # wLog[w]

\* C3: an accepted pair whose two ends lie in the same bin i adds exactly 1
\* to M[i][i] and changes no other entry.
C3_DiagonalOnce ==
    [][\A w \in Workers :
          Processed(w) =>
              LET a == FindBinIndex(binDict, Head(fragQueue)[1], Head(fragQueue)[2])
                  b == FindBinIndex(binDict, Head(fragQueue)[3], Head(fragQueue)[4])
              IN  (a.kind = "index" /\ b.kind = "index" /\ a.index = b.index) =>
                      wMatrix'[w] = [wMatrix[w] EXCEPT ![a.index][a.index] = @ + 1]]_vars

\* C4: every worker's matrix is symmetric after every pair, and the merged
\* matrix is symmetric after every merge step.
C4_Symmetric ==
    /\ \A w \in Workers : Symmetric(wMatrix[w])
    /\ Symmetric(finalMatrix)

C4_Witness ==
    /\ gmPc = "done"
    /\ mergeCount >= 2
    /\ \E i \in DOMAIN finalMatrix : \E j \in DOMAIN finalMatrix :
          i # j /\ finalMatrix[i][j] >= 2

\* what a single accumulator holds after the first k lines, in file order
RECURSIVE InOrder(_, _, _)
InOrder(dict, lines, k) ==
    IF k = 0 THEN [matrix |-> ZeroMatrix(binCount), logData |-> ZeroLog]
    ELSE LET before == InOrder(dict, lines, k - 1)
         IN  MatrixStep(dict, before.matrix, before.logData, lines[k])

\* C5: the matrix and counters returned depend on the input lines only, not
\* on the number of workers nor on which worker took which line.
C5_MergeOrderIndependent ==
    gmPc = "done" =>
        /\ finalMatrix = InOrder(binDict, fh, Len(fh)).matrix
        /\ finalLog = InOrder(binDict, fh, Len(fh)).logData

C5_Witness ==
    /\ gmPc = "done"
    /\ processData >= 2
    /\ wLog[1][3] >= 1
    /\ wLog[2][3] >= 1

\* C6: a pair with an unresolved end adds 1 to the counter of the first
\* failure met (first end before second end) and to nothing else but the
\* total; the matrix and the accepted counter keep their values and the
\* worker goes on.
C6_RejectCountsOnce ==
    [][\A w \in Workers :
          Processed(w) =>
              LET a == FindBinIndex(binDict, Head(fragQueue)[1], Head(fragQueue)[2])
                  b == FindBinIndex(binDict, Head(fragQueue)[3], Head(fragQueue)[4])
                  reason == IF a.kind # "index" THEN a.kind ELSE b.kind
              IN  (a.kind # "index" \/ b.kind # "index") =>
                      /\ wMatrix'[w] = wMatrix[w]
                      /\ wLog'[w][3] = wLog[w][3]
                      /\ wLog'[w][1] = wLog[w][1] + (IF reason = "nochr" THEN 1 ELSE 0)
                      /\ wLog'[w][2] = wLog[w][2] + (IF reason = "nobin" THEN 1 ELSE 0)
                      /\ wLog'[w][0] = wLog[w][0] + 1
                      /\ wPc'[w] = "run"]_vars

C6_Witness ==
    \E w \in Workers :
        /\ wLog[w][1] >= 1
        /\ wLog[w][2] >= 1
        /\ wLog[w][3] = 0
        /\ wMatrix[w] = ZeroMatrix(binCount)

(***************************************************************************)
(* Properties of the low-bin filter (checked under SpecLow)                *)
(***************************************************************************)
\* sum of bin b's row over the columns of region r in the matrix of file p,
\* the diagonal removed first when rmDiag is set
IntraSum(p, r, b) == RowSum(LoadCounts(files[p], rmDiag), regionIndices[r], b)

RegionBins == {<<r, k>> \in (DOMAIN regionIndices) \X (1..Len(HeaderBinNames)) :
                  k <= Len(regionIndices[r])}

\* C8: a bin of a region is low exactly when its intra-region sum is
\* strictly below minCount in at least one matrix, that is when the minimum
\* over the matrices is; this whatever order the sums came back in.
C8_LowIffMinBelow ==
    elPc = "done" =>
        \A rk \in RegionBins :
            lowBinsDict[rk[1]][rk[2]] <=>
                \E p \in Paths(matrixList) :
                    IntraSum(p, rk[1], regionIndices[rk[1]][rk[2]]) < minCount

HasMask == ssPc \in {"spawn", "put", "get", "join", "done"}

ZeroSignalMarked(mask) ==
    \A rk \in RegionBins :
        (\E p \in Paths(matrixList) :
            IntraSum(p, rk[1], regionIndices[rk[1]][rk[2]]) = 0) => mask[rk[1]][rk[2]]

\* C9 as stated: for every minCount >= 0 a bin with zero intra-region signal
\* in at least one matrix is marked low, by extractLowBins and in the mask
\* saveSubMatrices applies.
C9_ZeroSignalLowAnyMinCount ==
    /\ elPc = "done" => ZeroSignalMarked(lowBinsDict)
    /\ HasMask => ZeroSignalMarked(lowBins)

\* the region whose sums are the ones kept for bin b: the last region of the
\* dictionary that contains b (the only one when no other region shares b)
KeptRegion(b) ==
    LET ks == {k \in 1..Len(regionOrder) : InRegion(regionIndices[regionOrder[k]], b)}
    IN  regionOrder[CHOOSE k \in ks : \A j \in ks : j <= k]

ZeroKeptSignalMarked(mask) ==
    IF minCount >= 1
    THEN \A rk \in RegionBins :
            LET b == regionIndices[rk[1]][rk[2]]
            IN  (\E p \in Paths(matrixList) : IntraSum(p, KeptRegion(b), b) = 0)
                    => mask[rk[1]][rk[2]]
    ELSE \A rk \in RegionBins : ~mask[rk[1]][rk[2]]

\* C9 amended: for every minCount >= 1 a bin is marked low, in every mask
\* that holds it, when in at least one matrix its signal is zero within the
\* region whose sums are kept for it (its own region whenever no other
\* region shares the bin); with minCount = 0 no bin is marked.  This for
\* extractLowBins and for the mask saveSubMatrices applies.
C9_ZeroSignalLowPositiveMinCount ==
    /\ elPc = "done" => ZeroKeptSignalMarked(lowBinsDict)
    /\ HasMask => ZeroKeptSignalMarked(lowBins)

C9_Witness ==
    /\ ssPc = "done"
    /\ minCount >= 1
    /\ \E rk \in RegionBins :
          LET b == regionIndices[rk[1]][rk[2]]
          IN  /\ lowBins[rk[1]][rk[2]]
              /\ \E p \in Paths(matrixList) : IntraSum(p, rk[1], b) = 0
              /\ \E p \in Paths(matrixList) : IntraSum(p, rk[1], b) >= minCount

(***************************************************************************)
(* Properties of iceNormalisation (checked under SpecIce)                  *)
(***************************************************************************)
\* C10: iceNormalisation never returns normally while a queued sub-matrix
\* is left without its bias and normalised matrix.
C10_FailureSurfaced ==
    icePc = "returned" =>
        \A i \in 1..Len(subMatrixList) : subMatrixList[i] \in iceOut

(***************************************************************************)
(* Properties of the worker pools of extractLowBins and saveSubMatrices    *)
(* (checked under SpecLow)                                                 *)
(***************************************************************************)
WorkerFailed == \E w \in NormWorkers : csPc[w] = "failed" \/ svPc[w] = "failed"

\* nothing can move any more: whoever has not finished waits for ever
Halted == ~ENABLED NextLow

\* C11: once a worker has failed on a matrix, the run does not end with the
\* coordinator or a worker waiting on a queue: the coordinator has raised
\* to its caller and no worker is left inside its loop.
C11_FailureStopsCoordinator ==
    (WorkerFailed /\ Halted) =>
        /\ (call = "extractLowBins" => elPc = "raised")
        /\ (call = "saveSubMatrices" => ssPc = "raised")
        /\ \A w \in NormWorkers : csPc[w] # "run" /\ svPc[w] # "run"

\* the name '<sample>.<region>.<minCount>[.noself].countMatrix.gz' in outDir
ExpectedPath(matrix, region) ==
    IF rmDiag
    THEN <<OutDir, SampleName(matrix), region, minCount, "noself", "countMatrix.gz">>
    ELSE <<OutDir, SampleName(matrix), region, minCount, "countMatrix.gz">>

\* C12: saveSubMatrices returns for either value of rmDiag, and the list it
\* returns holds exactly one path per (matrix, region), named after sample,
\* region and minCount, with 'noself' exactly when rmDiag is set.
C12_SaveReturnsOnePathPerPair ==
    call = "saveSubMatrices" =>
        /\ Halted => ssPc = "done"
        /\ ssPc = "done" =>
              /\ Len(subMatrixList) = Len(matrixList) * Cardinality(DOMAIN regionIndices)
              /\ \A i \in 1..Len(matrixList) : \A r \in DOMAIN regionIndices :
                    Cardinality({k \in 1..Len(subMatrixList) :
                        subMatrixList[k] = ExpectedPath(matrixList[i], r)}) = 1

(***************************************************************************)
(* Properties of createBins for widths of either sign (SpecWidth)          *)
(***************************************************************************)
\* C13: with a width of zero or below, in either mode, building the index
\* fails with an error and no index is made.
C13_NonPositiveWidthFails ==
    (binPc # "new" /\ binData.maxWidth <= 0) => binPc = "error"

(***************************************************************************)
(* Properties of readBed (SpecBed)                                         *)
(***************************************************************************)
Loaded == binPc \in {"built", "error"}

\* the bins of one chromosome of the file, in file order
FileBins(chrom) == BedEntry(binData, chrom)

UnsortedByStart(e) == \E i, j \in 1..e.count : i < j /\ e.start[j] < e.start[i]

\* two bins share more than a boundary
OverlapOpen(e) ==
    \E i, j \in 1..e.count : i # j /\ e.start[i] < e.end[j] /\ e.start[j] < e.end[i]

\* two bins share a position, both ends of a bin belonging to it
OverlapClosed(e) ==
    \E i, j \in 1..e.count : i # j /\ e.start[i] <= e.end[j] /\ e.start[j] <= e.end[i]

\* start < end for every bin and end[i] <= start[i+1]
ValidTouching(e) ==
    /\ \A i \in 1..e.count : e.start[i] < e.end[i]
    /\ \A i \in 1..(e.count - 1) : e.end[i] <= e.start[i + 1]

\* start < end for every bin and end[i] < start[i+1]
ValidApart(e) ==
    /\ \A i \in 1..e.count : e.start[i] < e.end[i]
    /\ \A i \in 1..(e.count - 1) : e.end[i] < e.start[i + 1]

C19_NamesFollowIndices ==
    binPc = "built" =>
        /\ Len(binNames) = binCount
        /\ UNION {{binDict[c].index[i] : i \in 1..binDict[c].count} : c \in DOMAIN binDict}
               = 0..(binCount - 1)
        /\ SumSeq([k \in 1..Len(SortedChrs) |->
               IF SortedChrs[k] \in DOMAIN binDict THEN binDict[SortedChrs[k]].count ELSE 0])
               = binCount
        /\ \A c \in DOMAIN binDict : \A i \in 1..binDict[c].count :
              /\ binNames[binDict[c].index[i] + 1] = <<c, binDict[c].start[i], binDict[c].end[i]>>
              /\ i > 1 => binDict[c].index[i] = binDict[c].index[i - 1] + 1

(***************************************************************************)
(* Properties of the argument checks (SpecArgs)                            *)
(***************************************************************************)
PublicCall == call \in {"extractLowBins", "saveSubMatrices", "iceNormalisation"}

CallPc ==
    IF call = "extractLowBins" THEN elPc
    ELSE IF call = "saveSubMatrices" THEN ssPc
    ELSE icePc

NoWorkerStarted ==
    \A w \in NormWorkers : csPc[w] = "idle" /\ svPc[w] = "idle" /\ iwPc[w] = "idle"

\* the worker run on its own has taken its matrix off the queue
MatrixTaken == Len(sInQueue) <= Len(matrixList)

\* C15: with minCount < 0 extractLowBins, saveSubMatrices and
\* iceNormalisation end with a validation error, no worker having been
\* started and no file written; a worker of saveSubMatrices given a mask
\* whose length differs from the number of bins of its region fails and
\* returns no file list.
C15_NegativeMinCountRefused ==
    /\ (PublicCall /\ minCount < 0) =>
          /\ CallPc \in {"start", "raised"}
          /\ ~ENABLED NextArgs => CallPc = "raised"
          /\ NoWorkerStarted
          /\ written = <<>>
          /\ iceOut = {}
    /\ (call = "saveSubMatrixProcess"
          /\ \E r \in DOMAIN regionIndices : Uncertain(lowBins, regionIndices, r)) =>
          /\ sOutQueue = <<>>
          /\ MatrixTaken => svPc[1] = "failed"

C15_Witness == call = "saveSubMatrices" /\ minCount < 0 /\ ssPc = "raised"

(***************************************************************************)
(* Properties of the ICE loop (SpecNum)                                    *)
(***************************************************************************)
\* the matrix saved equals its transpose, nan being equal to nothing
NormSymmetric(m) ==
    \A i \in 1..Len(m) : \A j \in 1..Len(m) : m[i][j].kind = "num" /\ m[i][j] = m[j][i]

\* C17: for every symmetric sub-matrix, inMatrix is symmetric after every
\* pass of the loop and the normalised matrix saved is symmetric.
C17_SymmetryKept ==
    /\ (numPc \in {"loop", "scale", "done"}) => FSymmetric(iceMatrix)
    /\ numPc = "done" => NormSymmetric(normMatrix)

(***************************************************************************)
(* Properties of the output files (SpecWrite)                              *)
(***************************************************************************)
\* C18: at no moment do two workers of saveSubMatrices, or two workers of
\* iceNormalisation, have the same output path open for writing, whatever
\* the matrix list and the interleaving.
C18_NoSharedWrite ==
    \A w1, w2 \in NormWorkers :
        w1 # w2 =>
            /\ ~(svJob[w1] # <<>> /\ svJob[w2] # <<>>
                    /\ SavePath(svJob[w1]) = SavePath(svJob[w2]))
            /\ ~(iwJob[w1] # <<>> /\ iwJob[w2] # <<>> /\ iwJob[w1] = iwJob[w2])

(***************************************************************************)
(* Properties of the region dictionary (SpecRegion)                        *)
(***************************************************************************)
\* bin k lies on the chromosome of the segment and entirely inside it
InsideSegment(k, line) ==
    /\ RegionHeader[k + 1][1] = line[1]
    /\ line[2] <= RegionHeader[k + 1][2]
    /\ RegionHeader[k + 1][3] <= line[3]

\* the lines of the region file naming the region whose segment holds bin k
SegmentsHolding(region, k) ==
    {n \in 1..Len(regionFile) : regionFile[n][4] = region /\ InsideSegment(k, regionFile[n])}

HeaderBins == 0..(Len(RegionHeader) - 1)

\* C20: the construction fails if a named region matches no bin or gets
\* the same bin twice; after a successful construction the index list of
\* every region is non-empty, free of duplicates and ascending, and holds
\* exactly the bins lying on the chromosome of one of its segments and
\* entirely inside it.
C20_RegionIndicesValid ==
    /\ (regPc # "start" /\ \E region \in RegionNames(regionFile) :
            \/ \A k \in HeaderBins : SegmentsHolding(region, k) = {}
            \/ \E k \in HeaderBins : Cardinality(SegmentsHolding(region, k)) >= 2)
          => regPc = "failed"
    /\ regPc = "done" =>
          /\ DOMAIN regionIndices = RegionNames(regionFile)
          /\ \A region \in DOMAIN regionIndices :
                LET indices == regionIndices[region]
                IN  /\ Len(indices) >= 1
                    /\ \A i \in 1..(Len(indices) - 1) : indices[i] < indices[i + 1]
                    /\ {indices[i] : i \in 1..Len(indices)}
                           = {k \in HeaderBins : SegmentsHolding(region, k) # {}}

\* a region made of two segments given in descending order
C20_Witness ==
    /\ regPc = "done"
    /\ Len(regionFile) = 2
    /\ regionFile[1][4] = regionFile[2][4]
    /\ regionFile[1][2] > regionFile[2][2]
    /\ Len(regionIndices[regionFile[1][4]]) = 2

(***************************************************************************)
(* C21: on an index whose bins are sorted and disjoint per chromosome (the *)
(* only kind readBed lets through), findBinIndex returns the global index  *)
(* of the one bin with start <= p <= end, both ends included, and 'nobin'  *)
(* exactly when no bin of the chromosome holds p: before the first bin, in *)
(* a gap between two bins, or past the last bin.                           *)
(***************************************************************************)
Holders(e, p) == {i \in 1..e.count : e.start[i] <= p /\ p <= e.end[i]}

C21_FindBinUniqueInclusive ==
    (binPc = "queried" /\ qChrom \in DOMAIN binDict) =>
        LET e == binDict[qChrom]
            holders == Holders(e, qPos)
        IN  /\ Cardinality(holders) <= 1
            /\ (qResult = NoBin) <=> (holders = {})
            /\ \A i \in holders : qResult = Found(e.index[i])
            /\ \A i \in 1..e.count :
                  (qPos = e.end[i] \/ qPos = e.start[i]) =>
                      qResult = Found(e.index[i])

\* a query that falls in the gap between two bins of one chromosome
C21_Witness ==
    /\ binPc = "queried"
    /\ qChrom \in DOMAIN binDict
    /\ qResult = NoBin
    /\ \E i \in 1..(binDict[qChrom].count - 1) :
          /\ binDict[qChrom].end[i] < qPos
          /\ qPos < binDict[qChrom].start[i + 1]

(***************************************************************************)
(* C22: in variable-width mode, for every chromosome length L >= 1 and     *)
(* width W >= 1, createBins makes exactly ceil(L / W) bins; every width is *)
(* positive and at most W, the widths never grow along the chromosome and  *)
(* differ by at most 1 (so at most two sizes, the larger first), and they  *)
(* sum to L.                                                               *)
(***************************************************************************)
Widths(e) == [i \in 1..e.count |-> (e.end[i] - e.start[i]) + 1]

C22_VariableWidthsEven ==
    (Built /\ ~binData.fixedWidth) =>
        \A k \in ChrIndexes :
            LET e == binDict[ChrName(k)]
                L == ChrLength(k)
                W == binData.maxWidth
                w == Widths(e)
            IN  /\ e.count * W >= L
                /\ (e.count - 1) * W < L
                /\ \A i \in 1..e.count : 1 <= w[i] /\ w[i] <= W
                /\ \A i, j \in 1..e.count :
                      i < j => (w[i] >= w[j] /\ w[i] - w[j] <= 1)
                /\ Cardinality({w[i] : i \in 1..e.count}) <= 2
                /\ SumSeq(w) = L

\* a chromosome cut into three or more bins of two sizes
C22_Witness ==
    /\ binPc = "built"
    /\ ~binData.fixedWidth
    /\ \E k \in ChrIndexes :
          LET e == binDict[ChrName(k)]
          IN  /\ e.count >= 3
              /\ Widths(e)[1] = Widths(e)[e.count] + 1
              /\ Widths(e)[2] = Widths(e)[e.count]

(***************************************************************************)
(* C23: for every region, regions of different names that share bins       *)
(* included, each entry of the region's low-bin mask is decided from the   *)
(* bin's sum over the columns of that same region: the mask returned for a *)
(* region is the mask computed from that region's own sums alone.          *)
(***************************************************************************)
\* the smallest sum, over the matrices, of bin b's row within region r
OwnMin(r, b) ==
    CHOOSE x \in {IntraSum(p, r, b) : p \in Paths(matrixList)} :
        \A p \in Paths(matrixList) : x <= IntraSum(p, r, b)

OwnMask(r) ==
    [k \in 1..Len(regionIndices[r]) |-> OwnMin(r, regionIndices[r][k]) < minCount]

C23_MaskFromOwnRegion ==
    elPc = "done" => \A r \in DOMAIN regionIndices : lowBinsDict[r] = OwnMask(r)

(***************************************************************************)
(* C24: after every record a worker has handled, and in the result         *)
(* generateMatrix merges, total = 'nochr' rejections + 'nobin' rejections  *)
(* + accepted pairs; in the merged result total is the number of input     *)
(* records, for any worker count and interleaving.                         *)
(***************************************************************************)
Balanced(logData) == logData[0] = logData[1] + logData[2] + logData[3]

StartedWorkers == {w \in Workers : w <= processData}
SentinelsQueued == Cardinality({i \in 1..Len(fragQueue) : fragQueue[i] = None})
RecordsQueued == Len(fragQueue) - SentinelsQueued
RecordsTaken == SumSeq([w \in Workers |-> wLog[w][0]])
ResultsSent == Cardinality({w \in Workers : wPc[w] = "sent"})

C25_EveryRecordOnceAndReturn ==
    /\ RecordsTaken + RecordsQueued = linePos
    /\ ResultsSent + SentinelsQueued = termCount
    /\ \A w \in Workers :
          /\ pipe[w] \in {"sent", "closed"} => wPc[w] = "sent"
          /\ wPc[w] # "idle" => w \in StartedWorkers
    /\ gmPc = "done" \/ ENABLED NextMatrix
    /\ gmPc = "done" =>
          /\ processData >= 1
          /\ mergeCount = processData
          /\ fragQueue = <<>>
          /\ RecordsTaken = Len(fh)
          /\ \A w \in StartedWorkers : wPc[w] = "sent" /\ pipe[w] = "closed"

\* the coordinator returned after the second of two workers took all three
\* records and the first took nothing but its None
C25_Witness ==
    /\ gmPc = "done"
    /\ processData = 2
    /\ wLog[1][0] = 0
    /\ wLog[2][0] = 3

(***************************************************************************)
(* C26: for any stream of pairs received by processPairs and ended by      *)
(* None: total = duplicate + unique = concord + discord; unique is the     *)
(* number of distinct pairs seen, the first occurrence of a pair never     *)
(* being counted as a duplicate; a pair is written exactly when it is not  *)
(* (a duplicate while rmDup is set) and not (concordant while rmConcord is *)
(* set); the counters are sent back exactly once, only after None has been *)
(* received.                                                               *)
(***************************************************************************)
\* number of pairs processPairs has received so far
PairsGot == xpPos - Cardinality({i \in 1..Len(pairPipe) : pairPipe[i] # None})

\* the i-th pair of the stream was seen before
Repeated(i) == \E j \in 1..(i - 1) : pairStream[j] = pairStream[i]

Kept(i) ==
    /\ ~(Repeated(i) /\ rmDup)
    /\ ~(Concordant(pairStream[i], maxSize) /\ rmConcord)

\* the pairs that are to be written among the first k of the stream, in order
RECURSIVE KeptPairs(_)
KeptPairs(k) ==
    IF k = 0 THEN <<>>
    ELSE IF Kept(k) THEN Append(KeptPairs(k - 1), pairStream[k])
         ELSE KeptPairs(k - 1)

CountsSent == Len(backPipe) + (IF xpPc = "done" THEN 1 ELSE 0)

C26_PairCountersAndOutput ==
    /\ Count(pairCount, "total") = PairsGot
    /\ Count(pairCount, "total")
          = Count(pairCount, "duplicate") + Count(pairCount, "unique")
    /\ Count(pairCount, "total")
          = Count(pairCount, "concord") + Count(pairCount, "discord")
    /\ Count(pairCount, "unique")
          = Cardinality({pairStream[i] : i \in 1..PairsGot})
    /\ Count(pairCount, "duplicate")
          = Cardinality({i \in 1..PairsGot : Repeated(i)})
    /\ outObject.lines = KeptPairs(PairsGot)
    /\ CountsSent = (IF ppPc = "ended" THEN 1 ELSE 0)
    /\ ppPc \in {"close", "ended"} =>
          /\ PairsGot = Len(pairStream)
          /\ xpPc # "send"
    /\ backPipe # <<>> => Head(backPipe) = pairCount
    /\ xpPc = "done" => xpResult = pairCount

\* the run ended on a stream that repeats a concordant pair, with both
\* filters set: nothing is written and one duplicate is counted
C26_Witness ==
    /\ xpPc = "done"
    /\ rmDup /\ rmConcord
    /\ Len(pairStream) = 2
    /\ pairStream[1] = pairStream[2]
    /\ Concordant(pairStream[1], maxSize)
    /\ Count(xpResult, "duplicate") = 1
    /\ Count(xpResult, "concorduni") = 1
    /\ outObject = [lines |-> <<>>, closed |-> TRUE]

====
